---- MODULE Spec2Model ----
(***************************************************************************)
(* Model of the podcast generator's workflow engine (server.js): the       *)
(* workflows table, the request handlers that move a workflow through its  *)
(* stages, the LLM orchestration of generate-script and the TTS worker     *)
(* subprocess of generate-audio.                                           *)
(*                                                                         *)
(* Node runs one handler segment at a time: a handler executes atomically  *)
(* from one await to the next, so every action below is one such segment.  *)
(* The synchronous handlers (create, get, upload) are a single action.     *)
(***************************************************************************)
EXTENDS Integers, Sequences, FiniteSets, TLC

VARIABLES
  workflows,   \* the workflows table: id -> row
  tasks,       \* request contexts, one per slot: the handler's position and
               \* locals while it runs, its response once it has answered,
               \* and the files it has written under rss/ and bundles/
  sel,         \* strategy-selection scratch state (n, batchSize, useSwarm, chosen)
  orch,        \* one run of generateBatchScript / generateSwarmScript in detail
  pool,        \* apiKeyPool: its keys in order and currentIndex
  now,         \* Date.now(), in milliseconds
  px,          \* the last key-pool call and the /api/openrouter request in flight
  vcache,      \* the rows of api_key_validations
  val,         \* the key validation in progress and its result
  speeches,    \* the rows of the speeches table
  srch,        \* the last /api/search or populateArchive call and its result
  feed,        \* the last RSS document written
  auth,        \* the sessions table, the tokens issued and the last auth request
  runs         \* the populateArchive runs in flight, and what they called

\* What the workflow endpoints leave alone
others == <<sel, orch, pool, now, px, vcache, val, speeches, srch, feed, auth, runs>>

\* What the key subsystems leave alone
archive == <<speeches, srch, feed, auth, runs>>

vars ==
  <<workflows, tasks, sel, orch, pool, now, px, vcache, val, speeches, srch, feed, auth, runs>>

----------------------------------------------------------------------------
(* Bounds *)

MaxWorkflows == 1       \* workflows created while requests of every kind run
MaxTasks == 2           \* requests in flight at once in SpecRace
MaxCrudWorkflows == 2   \* workflows created in SpecCrud
MaxN == 6               \* speeches of a workflow in SpecStrategy
MaxBatch == 5           \* batchSize in SpecStrategy
MaxKeys == 2            \* distinct keys offered to the pool
MaxCount == 1           \* successCount / errorCount from which no more is counted

----------------------------------------------------------------------------
(* Values *)

\* Every nullable value is a record, so that any two of them compare.
Null == [kind |-> "null"]
NoId == 0                       \* workflowId absent from the request body
\* The ids a request may name: none, the ids of max workflows and an id no
\* workflow ever gets
IdsUpTo(max) == 0..(max + 1)

MaxScriptLen == 50000

\* A string is described by its leading whitespace, its core (from the first
\* to the last non-whitespace character) and its trailing whitespace.
Str(l, b, t) == [kind |-> "str", lead |-> l, body |-> b, trail |-> t]
StrLen(s) == s.lead + s.body + s.trail
NotString == [kind |-> "other"]   \* a truthy JSON value that is no string
EmptyStr == Str(0, 0, 0)

\* String.prototype.trim
Trim(s) == Str(0, s.body, 0)

\* JavaScript truthiness of a (possibly null, possibly non-string) value
Truthy(s) ==
  CASE s.kind = "null" -> FALSE
    [] s.kind = "str" -> StrLen(s) > 0
    [] OTHER -> TRUE

Path(d, w) == [kind |-> "path", dir |-> d, wf |-> w]
FallbackPath(w) == Path("audio", w)            \* `audio/${workflowId}.wav`
WorkerOut(w) == Path("tts_output_file", w)     \* output_file in the worker's JSON
BundleRss(w) == Path("bundles/podcast.xml", w)
BundleReadme(w) == Path("bundles/README.json", w)
BundleAudio(w) == Path("bundles/audio", w)
PlainRss(w) == Path("rss", w)

\* The speeches table as the workflow handlers see it.
SpeechStore == {1, 2, 3}
Range(q) == {q[i] : i \in DOMAIN q}
\* SELECT ... FROM speeches WHERE id IN (...speechIds)
ResolveSpeeches(ids) == Range(ids) \cap SpeechStore

----------------------------------------------------------------------------
(* Request inputs *)

Arr(q) == [kind |-> "array", items |-> q]
NotArray == [kind |-> "other"]    \* a truthy JSON value that is no array
SpeechIdInputs == {Arr(<<1, 2, 3>>), Arr(<<9>>)}
BadSpeechIdInputs == {Null, NotArray, Arr(<< >>)}
IdInputs == IdsUpTo(MaxWorkflows)
UploadInputs == {EmptyStr, Str(1, 0, 0), Str(1, 1, 0)}
BoundaryScripts ==
  {Null, NotString, EmptyStr, Str(2, 0, 0), Str(0, 1, 0), Str(1, 1, 1),
   Str(0, MaxScriptLen, 0), Str(1, MaxScriptLen - 1, 0),
   Str(0, MaxScriptLen + 1, 0), Str(0, MaxScriptLen, 1)}
LLMOutputs == {EmptyStr, Str(0, 2, 0)}
BatchSizeInputs == {2, 10}

----------------------------------------------------------------------------
(* State *)

Statuses == {"draft", "script_generated", "script_uploaded", "audio_generated", "finalized"}

NewRow(ids) ==
  [status |-> "draft", script |-> Null, audio_url |-> Null, rss_url |-> Null,
   speech_ids |-> ids]

\* op, wf, arg: the endpoint, req.body.workflowId and the body field the
\* endpoint validates; script, audio: the row values the handler read;
\* left, pending: provider calls outstanding; proc: the TTS worker;
\* code, detail: the response; wrote: the files the handler wrote.
IdleTask ==
  [pc |-> "idle", op |-> "none", wf |-> NoId, arg |-> Null, script |-> Null,
   audio |-> Null, left |-> 0, pending |-> 0, proc |-> "none", abandoned |-> FALSE,
   code |-> 0, detail |-> Null, wrote |-> {}]

\* The context of a request in flight
Running(op, w, pc) == [IdleTask EXCEPT !.pc = pc, !.op = op, !.wf = w]

\* The context of an answered request
Answered(op, w, code, detail) ==
  [IdleTask EXCEPT !.pc = "done", !.op = op, !.wf = w, !.code = code, !.detail = detail]

NoSel == [n |-> 0, batchSize |-> 0, useSwarm |-> FALSE, chosen |-> "none"]

\* No orchestration run observed
NoOrch ==
  [pc |-> "none", strategy |-> "none", n |-> 0, batchSize |-> 0, i |-> 0,
   batches |-> << >>, entries |-> << >>, agents |-> << >>, calls |-> << >>, result |-> Null]

\* new ApiKeyPool(): no key, currentIndex 0
EmptyPool == [keys |-> << >>, currentIndex |-> 0, rateLimitedKeys |-> {}]

\* No key-pool call made and no proxy request in flight
IdleProxy ==
  [pc |-> "idle", op |-> "none", got |-> 0, at |-> 0, kind |-> "none", durationMs |-> 0,
   cleared |-> {}, served |-> << >>, usePool |-> FALSE, client |-> 0, env |-> 0,
   apiKey |-> 0, usingPool |-> FALSE, upstream |-> 0, calls |-> 0, code |-> 0]

\* No validation in progress
IdleVal ==
  [pc |-> "idle", key |-> 0, at |-> 0, probes |-> 0, result |-> Null, status |-> 0,
   probed |-> Null]

\* The orchestration detail and the key subsystems at rest
NoOrchRun == orch = NoOrch
KeysAtRest == pool = EmptyPool /\ now = 0 /\ px = IdleProxy /\ vcache = {} /\ val = IdleVal

\* No speech stored, no search made, no feed written
NoRun == [n |-> 0]
IdleSearch ==
  [pc |-> "idle", filter |-> [keyword |-> FALSE, startDate |-> 0, endDate |-> 0],
   limitNum |-> 0, offsetNum |-> 0, results |-> << >>, total |-> 0, pages |-> << >>,
   run |-> NoRun]
NoFeed == [kind |-> "none"]
\* Nobody logged in, no populateArchive run started
NoAuth == [sessions |-> {}, issued |-> {}, used |-> {}, revoked |-> {},
           last |-> [op |-> "none"]]
NoRuns == << >>
AuthAtRest == auth = NoAuth /\ runs = NoRuns
ArchiveAtRest == speeches = {} /\ srch = IdleSearch /\ feed = NoFeed /\ AuthAtRest

Init ==
  /\ workflows = << >>
  /\ tasks = [t \in 1..MaxTasks |-> IdleTask]
  /\ sel = NoSel
  /\ NoOrchRun
  /\ KeysAtRest
  /\ ArchiveAtRest

\* A slot is free once its request is answered and its worker, if any, is gone.
IsFree(t) == tasks[t].pc \in {"idle", "done"} /\ tasks[t].proc # "signalled"

\* This step takes up a new request of endpoint op in slot t.
Taken(t, op) == IsFree(t) /\ tasks'[t] # tasks[t] /\ tasks'[t].op = op

\* A new request is served in the first free slot.
FreeSlot(t) ==
  /\ IsFree(t)
  /\ \A u \in 1..(t - 1) : ~IsFree(u)

Answer(t, op, w, code, detail) ==
  tasks' = [tasks EXCEPT ![t] = Answered(op, w, code, detail)]

\* The same for the endpoints whose validated body field is kept
AnswerFor(t, op, w, arg, code, detail) ==
  tasks' = [tasks EXCEPT ![t] = [Answered(op, w, code, detail) EXCEPT !.arg = arg]]

Exists(w) == w \in DOMAIN workflows

\* UPDATE workflows SET ... WHERE id = ?  (no row: no change)
UpdateRow(w, fields) ==
  IF Exists(w)
  THEN [workflows EXCEPT ![w] = [f \in DOMAIN workflows[w] |->
          IF f \in DOMAIN fields THEN fields[f] ELSE workflows[w][f]]]
  ELSE workflows

----------------------------------------------------------------------------
(* POST /api/workflow, GET /api/workflow/:id, POST /api/upload-script *)

\* POST /api/workflow as it would be without the length test on speechIds
CreateAcceptsEmptyArray(hasName, ids) ==
  /\ hasName
  /\ Truthy(ids)
  /\ ids.kind = "array"

\* The validation of POST /api/workflow
CreateAccepts(hasName, ids) ==
  /\ hasName
  /\ Truthy(ids)
  /\ ids.kind = "array"
  /\ Len(ids.items) # 0

CreateWorkflow(t, hasName, ids, max) ==
  /\ FreeSlot(t)
  /\ IF CreateAccepts(hasName, ids)
     THEN /\ Len(workflows) < max
          /\ workflows' = Append(workflows, NewRow(ids.items))
          /\ AnswerFor(t, "createWorkflow", Len(workflows) + 1, ids, 200,
                       [kind |-> "created", status |-> "draft"])
     ELSE /\ AnswerFor(t, "createWorkflow", NoId, ids, 400, Null)
          /\ UNCHANGED workflows
  /\ UNCHANGED others

GetWorkflow(t, w) ==
  /\ FreeSlot(t)
  /\ w # NoId
  /\ IF Exists(w)
     THEN Answer(t, "getWorkflow", w, 200, workflows[w])
     ELSE Answer(t, "getWorkflow", w, 404, Null)
  /\ UNCHANGED <<workflows, others>>

\* upload-script as it would be with the limit one character lower
UploadRejectsAtLimit(w, script) ==
  IF w = NoId \/ ~Truthy(script) THEN 400
  ELSE IF script.kind # "str" \/ StrLen(Trim(script)) = 0 THEN 400
  ELSE IF StrLen(script) >= MaxScriptLen THEN 400
  ELSE 0

\* The checks of POST /api/upload-script ahead of its UPDATE: 0 when the
\* script passes, else the status of the rejection.
UploadRejects(w, script) ==
  IF w = NoId \/ ~Truthy(script) THEN 400
  ELSE IF script.kind # "str" \/ StrLen(Trim(script)) = 0 THEN 400
  ELSE IF StrLen(script) > MaxScriptLen THEN 400
  ELSE 0

UploadScript(t, w, script) ==
  /\ FreeSlot(t)
  /\ IF UploadRejects(w, script) # 0
     THEN /\ AnswerFor(t, "uploadScript", w, script, UploadRejects(w, script), Null)
          /\ UNCHANGED workflows
     ELSE /\ workflows' = UpdateRow(w, [script |-> Trim(script), status |-> "script_uploaded"])
          /\ IF Exists(w)
             THEN AnswerFor(t, "uploadScript", w, script, 200,
                            [kind |-> "uploaded", scriptLength |-> StrLen(script)])
             ELSE AnswerFor(t, "uploadScript", w, script, 404, Null)
  /\ UNCHANGED others

----------------------------------------------------------------------------
(* POST /api/generate-script and the three LLM strategies *)

\* The selection as it would be with batching from n = batchSize on
SelectStrategyFromBatchSize(n, batchSize, useSwarm) ==
  IF useSwarm /\ n >= 3 THEN "swarm"
  ELSE IF n >= batchSize THEN "batch"
  ELSE "single"

\* if (useSwarm && n >= 3) swarm; else if (n > batchSize) batch; else single
SelectStrategy(n, batchSize, useSwarm) ==
  IF useSwarm /\ n >= 3 THEN "swarm"
  ELSE IF n > batchSize THEN "batch"
  ELSE "single"

\* for (let i = 0; i < speeches.length; i += batchSize) batches.push(...)
RECURSIVE BatchCount(_, _, _)
BatchCount(i, n, batchSize) ==
  IF i < n THEN 1 + BatchCount(i + batchSize, n, batchSize) ELSE 0

\* The handler up to its first await: the first provider call(s) are issued.
\* left: batch-summary calls still to return; pending: agent calls the
\* Promise.all still waits for.
StartScript(w, n, batchSize, useSwarm) ==
  LET strategy == SelectStrategy(n, batchSize, useSwarm) IN
  CASE strategy = "swarm" ->
         [Running("generateScript", w, "swarm_agents") EXCEPT !.pending = 3]
    [] strategy = "batch" ->
         [Running("generateScript", w, "batch_summary") EXCEPT
            !.left = BatchCount(0, n, batchSize)]
    [] OTHER -> Running("generateScript", w, "single")

\* 0 when the request may proceed, else the status of the rejection
ScriptRejects(w, hasModel) ==
  IF w = NoId \/ ~hasModel THEN 400
  ELSE IF ~Exists(w) THEN 404
  ELSE IF Cardinality(ResolveSpeeches(workflows[w].speech_ids)) = 0 THEN 400
  ELSE 0

GenerateScriptStart(t, w, hasModel, batchSize, useSwarm) ==
  /\ FreeSlot(t)
  /\ IF ScriptRejects(w, hasModel) # 0
     THEN Answer(t, "generateScript", w, ScriptRejects(w, hasModel), Null)
     ELSE LET n == Cardinality(ResolveSpeeches(workflows[w].speech_ids)) IN
          tasks' = [tasks EXCEPT ![t] = StartScript(w, n, batchSize, useSwarm)]
  /\ UNCHANGED <<workflows, others>>

\* The provider call that yields the final script returned: the handler
\* writes script and status in one UPDATE and answers; a throw is answered
\* with 500 by the handler's catch.
ScriptCommit(t, ok, out) ==
  LET w == tasks[t].wf IN
  IF ok
  THEN /\ workflows' = UpdateRow(w, [script |-> out, status |-> "script_generated"])
       /\ Answer(t, "generateScript", w, 200, out)
  ELSE /\ Answer(t, "generateScript", w, 500, Null)
       /\ UNCHANGED workflows

ScriptDone(t, ok, out) ==
  /\ ScriptCommit(t, ok, out)
  /\ UNCHANGED others

SingleReturn(t, ok, out) ==
  /\ tasks[t].pc = "single"
  /\ ScriptDone(t, ok, out)

\* A batch summary returned or failed: a failure is replaced by the marker
\* text and the loop goes on.
BatchSummaryReturn(t, ok) ==
  /\ tasks[t].pc = "batch_summary"
  /\ tasks' = [tasks EXCEPT ![t].left = @ - 1,
                            ![t].pc = IF tasks[t].left = 1 THEN "batch_synthesis" ELSE @]
  /\ UNCHANGED <<workflows, others>>

BatchSynthesisReturn(t, ok, out) ==
  /\ tasks[t].pc = "batch_synthesis"
  /\ ScriptDone(t, ok, out)

\* One of the three agent calls under Promise.all returned: the first
\* rejection rejects the join at once (it waits for no other agent) and the
\* catch issues the single call.
SwarmAgentReturn(t, ok) ==
  /\ tasks[t].pc = "swarm_agents"
  /\ tasks' = [tasks EXCEPT ![t].pending = IF ok THEN @ - 1 ELSE 0,
                            ![t].pc = IF ~ok THEN "fallback"
                                      ELSE IF tasks[t].pending = 1 THEN "swarm_synthesis"
                                      ELSE @]
  /\ UNCHANGED <<workflows, others>>

\* The synthesis call is inside the same try: its failure falls back too.
SwarmSynthesisReturn(t, ok, out) ==
  /\ tasks[t].pc = "swarm_synthesis"
  /\ IF ok
     THEN ScriptDone(t, TRUE, out)
     ELSE /\ tasks' = [tasks EXCEPT ![t].pc = "fallback"]
          /\ UNCHANGED <<workflows, others>>

FallbackReturn(t, ok, out) ==
  /\ tasks[t].pc = "fallback"
  /\ ScriptDone(t, ok, out)

ScriptPcs == {"single", "batch_summary", "batch_synthesis", "swarm_agents",
              "swarm_synthesis", "fallback"}

\* The client closes the connection of a pending generate-script request.
\* No handler reads this: Express keeps running the handler.
ClientAbandon(t) ==
  /\ tasks[t].pc \in ScriptPcs
  /\ ~tasks[t].abandoned
  /\ tasks' = [tasks EXCEPT ![t].abandoned = TRUE]
  /\ UNCHANGED <<workflows, others>>

----------------------------------------------------------------------------
(* POST /api/generate-audio and the TTS worker subprocess (generateLocalTTS) *)

\* generate-audio as it would be without the script test of its guard
AudioRejectsNoScriptTest(w) ==
  IF w = NoId THEN 400
  ELSE IF ~Exists(w) THEN 400
  ELSE 0

\* 0 when the request may proceed, else the status of the rejection
AudioRejects(w) ==
  IF w = NoId THEN 400
  ELSE IF ~Exists(w) \/ ~Truthy(workflows[w].script) THEN 400
  ELSE 0

TtsResult(success, fallback, error) ==
  [success |-> success, fallback |-> fallback, error |-> error, mock |-> FALSE]
MockResult == [TtsResult(TRUE, FALSE, "none") EXCEPT !.mock = TRUE]

\* The UPDATE and the response that end generate-audio; proc is what has
\* become of the worker by then.
AudioCommit(t, w, audioUrl, ttsResult, proc) ==
  /\ workflows' = UpdateRow(w, [audio_url |-> audioUrl, status |-> "audio_generated"])
  /\ tasks' = [tasks EXCEPT ![t] =
       [Answered("generateAudio", w, 200,
                 [kind |-> "audio", audioUrl |-> audioUrl, ttsResult |-> ttsResult])
          EXCEPT !.proc = proc]]

\* generate-audio as it would be without the catch around generateLocalTTS:
\* the rejection reaches the handler's outer catch, which answers 500.
AudioFallbackUncaught(t, w, error, proc) ==
  /\ tasks' = [tasks EXCEPT ![t] =
       [Answered("generateAudio", w, 500, Null) EXCEPT !.proc = proc]]
  /\ UNCHANGED workflows

\* The catch around generateLocalTTS: the fallback path and a failure result
AudioFallback(t, w, error, proc) ==
  AudioCommit(t, w, FallbackPath(w), TtsResult(FALSE, TRUE, error), proc)

\* The handler up to its await: the row is read, the worker is spawned with
\* the script read and the 5-minute timer is armed. With useLocal = false
\* there is no await and the mock result is committed at once.
GenerateAudioStart(t, w, useLocal, spawned) ==
  /\ FreeSlot(t)
  /\ IF AudioRejects(w) # 0
     THEN /\ Answer(t, "generateAudio", w, AudioRejects(w), Null)
          /\ UNCHANGED workflows
     ELSE IF ~useLocal
     THEN AudioCommit(t, w, FallbackPath(w), MockResult, "none")
     ELSE /\ tasks' = [tasks EXCEPT ![t] =
                 [Running("generateAudio", w, "tts") EXCEPT
                    !.script = workflows[w].script,
                    !.proc = IF spawned THEN "running" ELSE "spawn_failed"]]
          /\ UNCHANGED workflows
  /\ UNCHANGED others

CloseOutcomes == {"exit_ok", "exit_unparsable", "exit_nonzero"}

\* 'close': the worker has exited and its pipes are closed. Exit code 0 with
\* parsable stdout resolves with the worker's result; anything else rejects.
TtsClose(t, outcome) ==
  LET w == tasks[t].wf IN
  /\ tasks[t].pc = "tts"
  /\ tasks[t].proc = "running"
  /\ IF outcome = "exit_ok"
     THEN AudioCommit(t, w, WorkerOut(w), TtsResult(TRUE, FALSE, "none"), outcome)
     ELSE AudioFallback(t, w, outcome, outcome)
  /\ UNCHANGED others

\* 'error': the worker could not be started
TtsSpawnError(t) ==
  /\ tasks[t].pc = "tts"
  /\ tasks[t].proc = "spawn_failed"
  /\ AudioFallback(t, tasks[t].wf, "start", "spawn_failed")
  /\ UNCHANGED others

\* What pythonProcess.kill() makes of the worker: SIGTERM is sent to a
\* running worker, which exits later (or not at all).
Kill(proc) == IF proc = "running" THEN "signalled" ELSE proc

\* The timer: the worker is killed and the promise is rejected in the same
\* callback, so the handler commits and answers at once.
TtsTimeout(t) ==
  /\ tasks[t].pc = "tts"
  /\ tasks[t].proc = "running"
  /\ AudioFallback(t, tasks[t].wf, "timeout", Kill(tasks[t].proc))
  /\ UNCHANGED others

\* The signalled worker exits; its 'close' finds the promise settled.
TtsExitAfterKill(t) ==
  /\ tasks[t].proc = "signalled"
  /\ tasks' = [tasks EXCEPT ![t].proc = "exit_signal"]
  /\ UNCHANGED <<workflows, others>>

----------------------------------------------------------------------------
(* POST /api/finalize, generateLocalBundle and the plain RSS file *)

\* finalize as it would be without the audio_url test of its guard
FinalizeRejectsNoAudioTest(w) ==
  IF w = NoId THEN 400
  ELSE IF ~Exists(w) \/ ~Truthy(workflows[w].script) THEN 400
  ELSE 0

FinalizeRejects(w) ==
  IF w = NoId THEN 400
  ELSE IF ~Exists(w) \/ ~Truthy(workflows[w].script) \/ ~Truthy(workflows[w].audio_url)
  THEN 400
  ELSE 0

\* The handler up to its first await (fs.mkdir or fs.writeFile)
FinalizeStart(t, w, localBundle) ==
  /\ FreeSlot(t)
  /\ IF FinalizeRejects(w) # 0
     THEN Answer(t, "finalize", w, FinalizeRejects(w), Null)
     ELSE tasks' = [tasks EXCEPT ![t] =
            [Running("finalize", w, IF localBundle THEN "bundle_copy" ELSE "rss_write")
               EXCEPT !.audio = workflows[w].audio_url]]
  /\ UNCHANGED <<workflows, others>>

\* The response of finalize: the files written stay on disk either way.
FinalizeAnswer(t, code, detail) ==
  tasks' = [tasks EXCEPT ![t] =
    [Answered("finalize", tasks[t].wf, code, detail) EXCEPT !.wrote = tasks[t].wrote]]

\* An fs call threw: the handler's catch answers 500 and nothing is updated.
FinalizeFails(t) ==
  /\ FinalizeAnswer(t, 500, Null)
  /\ UNCHANGED <<workflows, others>>

\* The last write succeeded: the UPDATE and the response that end finalize
FinalizeCommit(t, paths, rssUrl) ==
  /\ workflows' = UpdateRow(tasks[t].wf, [rss_url |-> rssUrl, status |-> "finalized"])
  /\ tasks' = [tasks EXCEPT ![t] =
       [Answered("finalize", tasks[t].wf, 200, rssUrl) EXCEPT
          !.wrote = tasks[t].wrote \cup paths]]
  /\ UNCHANGED others

\* mkdir bundle, mkdir bundle/audio, then the audio file is copied when
\* fs.access finds it (the worker, not the server, writes it)
BundleCopy(t, ok, audioExists) ==
  /\ tasks[t].pc = "bundle_copy"
  /\ IF ok
     THEN /\ tasks' = [tasks EXCEPT ![t].pc = "bundle_write",
                         ![t].wrote = IF audioExists THEN {BundleAudio(tasks[t].wf)} ELSE {}]
          /\ UNCHANGED <<workflows, others>>
     ELSE FinalizeFails(t)

\* writeFile bundles/<id>/podcast.xml
BundleWriteRss(t, ok) ==
  /\ tasks[t].pc = "bundle_write"
  /\ IF ok
     THEN /\ tasks' = [tasks EXCEPT ![t].pc = "bundle_readme",
                                    ![t].wrote = @ \cup {BundleRss(tasks[t].wf)}]
          /\ UNCHANGED <<workflows, others>>
     ELSE FinalizeFails(t)

\* writeFile bundles/<id>/README.json, after which the handler commits
BundleWriteReadme(t, ok) ==
  /\ tasks[t].pc = "bundle_readme"
  /\ IF ok
     THEN FinalizeCommit(t, {BundleReadme(tasks[t].wf)}, BundleRss(tasks[t].wf))
     ELSE FinalizeFails(t)

\* writeFile rss/<id>.xml, after which the handler commits
PlainRssWrite(t, ok) ==
  /\ tasks[t].pc = "rss_write"
  /\ IF ok
     THEN FinalizeCommit(t, {PlainRss(tasks[t].wf)}, PlainRss(tasks[t].wf))
     ELSE FinalizeFails(t)

----------------------------------------------------------------------------
(* The workflow engine under requests *)

\* Bodies of generate-script that name a model: batchSize at its default 10
\* or 2, the swarm with the default
ScriptOptions ==
  {[hasModel |-> TRUE, batchSize |-> b, useSwarm |-> FALSE] : b \in BatchSizeInputs}
    \cup {[hasModel |-> TRUE, batchSize |-> 10, useSwarm |-> TRUE]}

\* Bodies of POST /api/workflow that carry a name
CreateBodies(speechIds) == {[hasName |-> TRUE, ids |-> i] : i \in speechIds}

\* generate-audio with the mock, with a worker that starts and with one that
\* does not
TtsModes ==
  {[useLocal |-> FALSE, spawned |-> TRUE], [useLocal |-> TRUE, spawned |-> TRUE],
   [useLocal |-> TRUE, spawned |-> FALSE]}

\* The request bodies a run draws from
AllInputs ==
  [creates |-> CreateBodies(SpeechIdInputs \cup BadSpeechIdInputs)
                 \cup {[hasName |-> FALSE, ids |-> Arr(<<1, 2, 3>>)]},
   ids |-> IdInputs, scripts |-> UploadInputs,
   options |-> ScriptOptions \cup {[hasModel |-> FALSE, batchSize |-> 10, useSwarm |-> FALSE]}]

\* Well-formed bodies that name an existing workflow: what is left to reject
\* them is the state of the row.
ValidInputs ==
  [creates |-> CreateBodies({Arr(<<1, 2, 3>>)}),
   ids |-> 1..MaxWorkflows, scripts |-> {Str(1, 1, 0)}, options |-> ScriptOptions]

NextOn(Slots, In) ==
  \/ \E t \in Slots, c \in In.creates : CreateWorkflow(t, c.hasName, c.ids, MaxWorkflows)
  \/ \E t \in Slots, w \in In.ids, script \in In.scripts : UploadScript(t, w, script)
  \/ \E t \in Slots, w \in In.ids, o \in In.options :
        GenerateScriptStart(t, w, o.hasModel, o.batchSize, o.useSwarm)
  \/ \E t \in Slots, ok \in BOOLEAN, out \in LLMOutputs : SingleReturn(t, ok, out)
  \/ \E t \in Slots, ok \in BOOLEAN : BatchSummaryReturn(t, ok)
  \/ \E t \in Slots, ok \in BOOLEAN, out \in LLMOutputs : BatchSynthesisReturn(t, ok, out)
  \/ \E t \in Slots, ok \in BOOLEAN : SwarmAgentReturn(t, ok)
  \/ \E t \in Slots, ok \in BOOLEAN, out \in LLMOutputs : SwarmSynthesisReturn(t, ok, out)
  \/ \E t \in Slots, ok \in BOOLEAN, out \in LLMOutputs : FallbackReturn(t, ok, out)
  \/ \E t \in Slots : ClientAbandon(t)
  \/ \E t \in Slots, w \in In.ids, m \in TtsModes :
        GenerateAudioStart(t, w, m.useLocal, m.spawned)
  \/ \E t \in Slots, outcome \in CloseOutcomes : TtsClose(t, outcome)
  \/ \E t \in Slots : TtsSpawnError(t)
  \/ \E t \in Slots : TtsTimeout(t)
  \/ \E t \in Slots : TtsExitAfterKill(t)
  \/ \E t \in Slots, w \in In.ids, localBundle \in BOOLEAN : FinalizeStart(t, w, localBundle)
  \/ \E t \in Slots, ok \in BOOLEAN, audioExists \in BOOLEAN : BundleCopy(t, ok, audioExists)
  \/ \E t \in Slots, ok \in BOOLEAN : BundleWriteRss(t, ok)
  \/ \E t \in Slots, ok \in BOOLEAN : BundleWriteReadme(t, ok)
  \/ \E t \in Slots, ok \in BOOLEAN : PlainRssWrite(t, ok)

\* One request at a time, of any body: each is answered before the next arrives.
Next == NextOn({1}, AllInputs)
Spec == Init /\ [][Next]_vars

\* Up to MaxTasks well-formed requests in flight, their handlers interleaved
\* at the awaits
NextRace == NextOn(1..MaxTasks, ValidInputs)
SpecRace == Init /\ [][NextRace]_vars

\* The synchronous endpoints alone, with scripts around the length limit
NextCrud ==
  \/ \E hasName \in BOOLEAN, ids \in SpeechIdInputs \cup BadSpeechIdInputs :
        CreateWorkflow(1, hasName, ids, MaxCrudWorkflows)
  \/ \E w \in IdsUpTo(MaxCrudWorkflows) : GetWorkflow(1, w)
  \/ \E w \in IdsUpTo(MaxCrudWorkflows), script \in BoundaryScripts : UploadScript(1, w, script)
SpecCrud == Init /\ [][NextCrud]_vars

\* Script generation alone, over workflows whose speech_ids resolve wholly,
\* partly or not at all
PartlyResolved == {Arr(<<1, 2, 3>>), Arr(<<1, 9>>), Arr(<<9>>)}
NextResolve ==
  \/ \E c \in CreateBodies(PartlyResolved) : CreateWorkflow(1, c.hasName, c.ids, MaxCrudWorkflows)
  \/ \E w \in IdsUpTo(MaxCrudWorkflows), o \in ScriptOptions :
        GenerateScriptStart(1, w, o.hasModel, o.batchSize, o.useSwarm)
  \/ \E ok \in BOOLEAN, out \in LLMOutputs : SingleReturn(1, ok, out)
  \/ \E ok \in BOOLEAN : BatchSummaryReturn(1, ok)
  \/ \E ok \in BOOLEAN, out \in LLMOutputs : BatchSynthesisReturn(1, ok, out)
  \/ \E ok \in BOOLEAN : SwarmAgentReturn(1, ok)
  \/ \E ok \in BOOLEAN, out \in LLMOutputs : SwarmSynthesisReturn(1, ok, out)
  \/ \E ok \in BOOLEAN, out \in LLMOutputs : FallbackReturn(1, ok, out)
SpecResolve == Init /\ [][NextResolve]_vars

\* The strategy selection of generate-script over its three inputs
InitStrategy ==
  /\ workflows = << >>
  /\ tasks = [t \in 1..MaxTasks |-> IdleTask]
  /\ sel \in [n : 1..MaxN, batchSize : 1..MaxBatch, useSwarm : BOOLEAN, chosen : {"none"}]
  /\ NoOrchRun
  /\ KeysAtRest
  /\ ArchiveAtRest

Select ==
  /\ sel.chosen = "none"
  /\ sel' = [sel EXCEPT !.chosen = SelectStrategy(sel.n, sel.batchSize, sel.useSwarm)]
  /\ UNCHANGED <<workflows, tasks, orch, pool, now, px, vcache, val, archive>>

NextStrategy == Select
SpecStrategy == InitStrategy /\ [][NextStrategy]_vars

----------------------------------------------------------------------------
(* generateBatchScript and generateSwarmScript, call by call *)

\* speeches.slice(from, to): the speeches at 0-based positions from..to-1
Slice(n, from, to) ==
  LET hi == IF to < n THEN to ELSE n
  IN  [j \in 1..(IF hi > from THEN hi - from ELSE 0) |-> from + j]

\* for (let i = 0; i < speeches.length; i += batchSize)
\*   batches.push(speeches.slice(i, i + batchSize))
RECURSIVE Batches(_, _, _)
Batches(i, n, batchSize) ==
  IF i < n THEN <<Slice(n, i, i + batchSize)>> \o Batches(i + batchSize, n, batchSize)
  ELSE << >>

\* The subset of agent index cut in chunks of ceil(n / 3) speeches
AgentSliceByChunk(n, index) ==
  Slice(n, index * ((n + 2) \div 3), (index + 1) * ((n + 2) \div 3))

\* The subset of agent index (0, 1, 2):
\* speeches.slice(floor(index * n / 3), floor((index + 1) * n / 3))
AgentSlice(n, index) == Slice(n, (index * n) \div 3, ((index + 1) * n) \div 3)

\* `Batch processing failed: ${batch.map(s => s.title).join(', ')}`
Marker(batch) == [kind |-> "marker", titles |-> batch]
Summary(batch) == [kind |-> "summary", of |-> batch]

\* The entry pushed to batchSummaries with every title of the run in its marker
BatchEntryAllTitles(all, batch, ok) ==
  [batch |-> batch, ok |-> ok, summary |-> IF ok THEN Summary(batch) ELSE Marker(all)]

\* The entry pushed to batchSummaries by the try or by the catch of the loop
BatchEntry(all, batch, ok) ==
  [batch |-> batch, ok |-> ok, summary |-> IF ok THEN Summary(batch) ELSE Marker(batch)]

\* A provider call as the orchestration issues it
Call(kind, over) == [kind |-> kind, over |-> over]

\* Promise.allSettled in place of Promise.all: the join waits for all three
\* and goes on with whatever analyses there are
AgentsJoinSettled(agents) ==
  IF \E a \in DOMAIN agents : agents[a] = "pending" THEN "wait" ELSE "resolve"

\* Promise.all over the three agent promises
AgentsJoin(agents) ==
  IF \E a \in DOMAIN agents : agents[a] = "failed" THEN "reject"
  ELSE IF \A a \in DOMAIN agents : agents[a] = "ok" THEN "resolve"
  ELSE "wait"

\* The strategy function as it stands at its first await
OrchBegin(n, batchSize, useSwarm) ==
  LET strategy == SelectStrategy(n, batchSize, useSwarm)
      base == [NoOrch EXCEPT !.strategy = strategy, !.n = n, !.batchSize = batchSize]
      all == Slice(n, 0, n)
  IN  CASE strategy = "swarm" ->
             [base EXCEPT !.pc = "agents",
                          !.agents = [a \in 1..3 |-> "pending"],
                          !.calls = [a \in 1..3 |-> Call("agent", AgentSlice(n, a - 1))]]
        [] strategy = "batch" ->
             [base EXCEPT !.pc = "batch",
                          !.batches = Batches(0, n, batchSize),
                          !.calls = <<Call("summary", Batches(0, n, batchSize)[1])>>]
        [] OTHER -> [base EXCEPT !.pc = "single", !.calls = <<Call("single", all)>>]

\* generate-script is suspended on its strategy function for a workflow of
\* n speeches
InitOrch ==
  /\ \E n \in 1..MaxN, batchSize \in 1..MaxBatch, useSwarm \in BOOLEAN :
        /\ workflows = <<NewRow(Slice(n, 0, n))>>
        /\ orch = OrchBegin(n, batchSize, useSwarm)
  /\ tasks = [t \in 1..MaxTasks |->
                IF t = 1 THEN Running("generateScript", 1, "strategy") ELSE IdleTask]
  /\ sel = NoSel
  /\ KeysAtRest
  /\ ArchiveAtRest

\* The strategy function returns out or throws: the handler commits or answers 500
OrchReturn(from, ok, out) ==
  /\ ScriptCommit(1, ok, out)
  /\ UNCHANGED sel
  /\ orch' = [orch EXCEPT !.pc = IF ok THEN "returned" ELSE "threw",
                          !.result = IF ok THEN [kind |-> "script", from |-> from, text |-> out]
                                     ELSE Null]

\* A batch summary call returned or threw: its entry is pushed, and the next
\* batch's call or the synthesis call is issued
OrchBatchSummary(ok) ==
  /\ orch.pc = "batch"
  /\ LET i == Len(orch.entries) + 1
         entries == Append(orch.entries, BatchEntry(Slice(orch.n, 0, orch.n), orch.batches[i], ok))
     IN  orch' = IF i < Len(orch.batches)
                 THEN [orch EXCEPT !.entries = entries,
                                   !.calls = Append(@, Call("summary", orch.batches[i + 1]))]
                 ELSE [orch EXCEPT !.entries = entries, !.pc = "batch_synthesis",
                                   !.calls = Append(@, Call("synthesis", entries))]
  /\ UNCHANGED <<workflows, tasks, sel, pool, now, px, vcache, val, archive>>

OrchBatchSynthesis(ok, out) ==
  /\ orch.pc = "batch_synthesis"
  /\ OrchReturn("synthesis", ok, out)
  /\ UNCHANGED <<pool, now, px, vcache, val, archive>>

\* An agent's call returned or threw. While the join is awaited, the first
\* failure rejects it and the catch calls generateSingleScript over all the
\* speeches; the third success resolves it and the synthesis call is issued.
\* Later completions find the join settled.
OrchAgent(a, ok) ==
  /\ orch.pc # "none"
  /\ a \in DOMAIN orch.agents
  /\ orch.agents[a] = "pending"
  /\ LET agents == [orch.agents EXCEPT ![a] = IF ok THEN "ok" ELSE "failed"]
         join == IF orch.pc = "agents" THEN AgentsJoin(agents) ELSE "settled"
     IN  orch' =
           CASE join = "reject" ->
                  [orch EXCEPT !.agents = agents, !.pc = "fallback",
                               !.calls = Append(@, Call("single", Slice(orch.n, 0, orch.n)))]
             [] join = "resolve" ->
                  [orch EXCEPT !.agents = agents, !.pc = "swarm_synthesis",
                               !.calls = Append(@, Call("synthesis", agents))]
             [] OTHER -> [orch EXCEPT !.agents = agents]
  /\ UNCHANGED <<workflows, tasks, sel, pool, now, px, vcache, val, archive>>

\* The swarm's synthesis call: its failure is caught like an agent's
OrchSwarmSynthesis(ok, out) ==
  /\ orch.pc = "swarm_synthesis"
  /\ IF ok
     THEN OrchReturn("synthesis", ok, out)
     ELSE /\ orch' = [orch EXCEPT !.pc = "fallback",
                        !.calls = Append(@, Call("single", Slice(orch.n, 0, orch.n)))]
          /\ UNCHANGED <<workflows, tasks, sel>>
  /\ UNCHANGED <<pool, now, px, vcache, val, archive>>

\* generateSingleScript, called by the handler or by the swarm's catch
OrchSingle(ok, out) ==
  /\ orch.pc \in {"single", "fallback"}
  /\ OrchReturn("single", ok, out)
  /\ UNCHANGED <<pool, now, px, vcache, val, archive>>

NextOrch ==
  \/ \E ok \in BOOLEAN : OrchBatchSummary(ok)
  \/ \E ok \in BOOLEAN, out \in LLMOutputs : OrchBatchSynthesis(ok, out)
  \/ \E a \in 1..3, ok \in BOOLEAN : OrchAgent(a, ok)
  \/ \E ok \in BOOLEAN, out \in LLMOutputs : OrchSwarmSynthesis(ok, out)
  \/ \E ok \in BOOLEAN, out \in LLMOutputs : OrchSingle(ok, out)
SpecOrch == InitOrch /\ [][NextOrch]_vars

----------------------------------------------------------------------------
(* ApiKeyPool *)

CooldownMs == 60000      \* markRateLimited(apiKey, durationMs = 60000)

\* The instants at which calls are made, around one cooldown
Instants == {0, 1, CooldownMs - 1, CooldownMs, CooldownMs + 1}

\* The durations markRateLimited is called with
Durations == {1, CooldownMs}

KeyIds == 1..MaxKeys
Priorities == {1, 2}
ErrorTypes == {"RATE_LIMITED", "INVALID_KEY", "REQUEST_ERROR", "NETWORK_ERROR"}

\* A pool entry; rateLimitedUntil 0 stands for null (both are falsy)
KeyInfo(key, priority) ==
  [key |-> key, priority |-> priority, rateLimitedUntil |-> 0,
   successCount |-> 0, errorCount |-> 0]

HasKey(p, key) == \E i \in DOMAIN p.keys : p.keys[i].key = key

\* this.keys.find(k => k.key === apiKey), as a position
IndexOf(p, key) == CHOOSE i \in DOMAIN p.keys : p.keys[i].key = key

InfoOf(p, key) == p.keys[IndexOf(p, key)]

\* keys.push(info); keys.sort((a, b) => b.priority - a.priority): the sort is
\* stable, so info lands behind the entries of its priority or higher
InsertByPriority(keys, info) ==
  LET ahead == Cardinality({i \in DOMAIN keys : keys[i].priority >= info.priority})
  IN  SubSeq(keys, 1, ahead) \o <<info>> \o SubSeq(keys, ahead + 1, Len(keys))

addKey(p, key, priority) ==
  IF HasKey(p, key) THEN p
  ELSE [p EXCEPT !.keys = InsertByPriority(p.keys, KeyInfo(key, priority))]

RemoveAt(q, i) == SubSeq(q, 1, i - 1) \o SubSeq(q, i + 1, Len(q))

removeKey(p, key) ==
  IF HasKey(p, key)
  THEN [p EXCEPT !.keys = RemoveAt(p.keys, IndexOf(p, key)),
                 !.rateLimitedKeys = @ \ {key}]
  ELSE p

\* The filter of getNextKey with the comparison turned around
IsAvailableUntilPassed(info, t) == info.rateLimitedUntil = 0 \/ info.rateLimitedUntil >= t

\* The filter of getNextKey: not (rateLimitedUntil && rateLimitedUntil > now)
IsAvailable(info, t) == ~(info.rateLimitedUntil # 0 /\ info.rateLimitedUntil > t)

\* The positions of the available keys, in pool order
RECURSIVE AvailablePositions(_, _, _)
AvailablePositions(keys, i, t) ==
  IF i > Len(keys) THEN << >>
  ELSE (IF IsAvailable(keys[i], t) THEN <<i>> ELSE << >>)
         \o AvailablePositions(keys, i + 1, t)

\* The pass of getNextKey over the keys: expired cooldowns are cleared
ClearExpired(p, t) ==
  [p EXCEPT
     !.keys = [i \in DOMAIN p.keys |->
                 IF IsAvailable(p.keys[i], t)
                 THEN [p.keys[i] EXCEPT !.rateLimitedUntil = 0] ELSE p.keys[i]],
     !.rateLimitedKeys = @ \ {p.keys[i].key : i \in
         {j \in DOMAIN p.keys : p.keys[j].rateLimitedUntil # 0 /\ IsAvailable(p.keys[j], t)}}]

\* getNextKey at time t: the key returned (0 for null) and the pool left
getNextKey(p, t) ==
  LET avail == AvailablePositions(p.keys, 1, t)
      cleared == ClearExpired(p, t)
  IN  IF Len(avail) = 0 THEN [key |-> 0, pool |-> cleared]
      ELSE [key |-> p.keys[avail[(p.currentIndex % Len(avail)) + 1]].key,
            pool |-> [cleared EXCEPT !.currentIndex = (p.currentIndex + 1) % Len(avail)]]

\* markRateLimited with the cooldown counted from time 0 instead of Date.now()
markRateLimitedFromZero(p, key, durationMs, t) ==
  IF HasKey(p, key)
  THEN [p EXCEPT !.keys[IndexOf(p, key)].rateLimitedUntil = durationMs,
                 !.keys[IndexOf(p, key)].errorCount = @ + 1,
                 !.rateLimitedKeys = @ \cup {key}]
  ELSE p

markRateLimited(p, key, durationMs, t) ==
  IF HasKey(p, key)
  THEN [p EXCEPT !.keys[IndexOf(p, key)].rateLimitedUntil = t + durationMs,
                 !.keys[IndexOf(p, key)].errorCount = @ + 1,
                 !.rateLimitedKeys = @ \cup {key}]
  ELSE p

markSuccess(p, key) ==
  IF HasKey(p, key) THEN [p EXCEPT !.keys[IndexOf(p, key)].successCount = @ + 1] ELSE p

markError(p, key, errorType, t) ==
  IF HasKey(p, key)
  THEN LET counted == [p EXCEPT !.keys[IndexOf(p, key)].errorCount = @ + 1]
       IN  IF errorType = "RATE_LIMITED" THEN markRateLimited(counted, key, CooldownMs, t)
           ELSE IF errorType = "INVALID_KEY" THEN removeKey(counted, key)
           ELSE counted
  ELSE p

\* getStats().availableKeys
availableKeys(p, t) ==
  Cardinality({i \in DOMAIN p.keys :
     p.keys[i].rateLimitedUntil = 0 \/ p.keys[i].rateLimitedUntil <= t})

\* A call on the pool: what was called, on which key and when; for getNextKey
\* the key returned, the keys whose cooldown the pass cleared and the keys
\* returned so far in the rotation that began with currentIndex = 0
PoolCall(op, key, got) ==
  [IdleProxy EXCEPT !.op = op, !.apiKey = key, !.got = got, !.at = now]

AddKey(key, priority) ==
  /\ pool' = addKey(pool, key, priority)
  /\ px' = PoolCall("addKey", key, 0)
  /\ UNCHANGED <<workflows, tasks, sel, orch, now, vcache, val, archive>>

GetNextKey ==
  LET got == getNextKey(pool, now).key IN
  /\ pool' = getNextKey(pool, now).pool
  /\ px' = [PoolCall("getNextKey", 0, got) EXCEPT
              !.cleared = pool.rateLimitedKeys \ getNextKey(pool, now).pool.rateLimitedKeys,
              !.served = IF got = 0 THEN << >>
                         ELSE IF px.op = "getNextKey" /\ pool.currentIndex # 0
                         THEN Append(px.served, got) ELSE <<got>>]
  /\ UNCHANGED <<workflows, tasks, sel, orch, now, vcache, val, archive>>

\* The counters are capped at MaxCount
Counted(key) ==
  HasKey(pool, key) =>
    InfoOf(pool, key).errorCount < MaxCount /\ InfoOf(pool, key).successCount < MaxCount

MarkRateLimited(key, durationMs) ==
  /\ Counted(key)
  /\ pool' = markRateLimited(pool, key, durationMs, now)
  /\ px' = [PoolCall("markRateLimited", key, 0) EXCEPT !.durationMs = durationMs]
  /\ UNCHANGED <<workflows, tasks, sel, orch, now, vcache, val, archive>>

MarkSuccess(key) ==
  /\ Counted(key)
  /\ pool' = markSuccess(pool, key)
  /\ px' = PoolCall("markSuccess", key, 0)
  /\ UNCHANGED <<workflows, tasks, sel, orch, now, vcache, val, archive>>

MarkError(key, errorType) ==
  /\ Counted(key)
  /\ pool' = markError(pool, key, errorType, now)
  /\ px' = [PoolCall("markError", key, 0) EXCEPT !.kind = errorType]
  /\ UNCHANGED <<workflows, tasks, sel, orch, now, vcache, val, archive>>

\* Time passes to a later instant
Tick(t) ==
  /\ t > now
  /\ now' = t
  /\ UNCHANGED <<workflows, tasks, sel, orch, pool, px, vcache, val, archive>>

NextPool ==
  \/ \E key \in KeyIds, priority \in Priorities : AddKey(key, priority)
  \/ GetNextKey
  \/ \E key \in KeyIds, durationMs \in Durations : MarkRateLimited(key, durationMs)
  \/ \E key \in KeyIds : MarkSuccess(key)
  \/ \E key \in KeyIds, errorType \in ErrorTypes : MarkError(key, errorType)
  \/ \E t \in Instants : Tick(t)
SpecPool == Init /\ [][NextPool]_vars

----------------------------------------------------------------------------
(* POST /api/openrouter *)

\* Keys a client sends in x-openrouter-key: one of the right form and one
\* that does not start with 'sk-or-v1-'
ClientKey == MaxKeys + 1
BadFormatKey == MaxKeys + 2

\* The pool after start-up: OPENROUTER_API_KEY is added with priority 10 and
\* OPENROUTER_TEST_KEY with priority 5, each when it is set
EnvPools ==
  {EmptyPool, addKey(EmptyPool, 1, 10), addKey(addKey(EmptyPool, 1, 10), 2, 5)}

\* process.env.OPENROUTER_API_KEY of a start-up pool (0: not set)
EnvKeyOf(p) == IF HasKey(p, 1) THEN 1 ELSE 0

InitProxy ==
  /\ workflows = << >>
  /\ tasks = [t \in 1..MaxTasks |-> IdleTask]
  /\ sel = NoSel
  /\ NoOrchRun
  /\ pool \in EnvPools
  /\ px = [IdleProxy EXCEPT !.env = EnvKeyOf(pool)]
  /\ now = 0 /\ vcache = {} /\ val = IdleVal
  /\ ArchiveAtRest

\* The key selection as the specification orders it: the client's key first,
\* then the pool, then the environment
SelectKeyClientFirst(p, t, usePool, client, env) ==
  IF client # 0 THEN [apiKey |-> client, usingPool |-> FALSE, pool |-> p]
  ELSE IF usePool /\ availableKeys(p, t) > 0
  THEN [apiKey |-> getNextKey(p, t).key, usingPool |-> TRUE, pool |-> getNextKey(p, t).pool]
  ELSE [apiKey |-> env, usingPool |-> FALSE, pool |-> p]

\* The key selection of the handler: the pool when usePool is set and a key is
\* available, else clientApiKey || process.env.OPENROUTER_API_KEY
SelectKey(p, t, usePool, client, env) ==
  IF usePool /\ availableKeys(p, t) > 0
  THEN [apiKey |-> getNextKey(p, t).key, usingPool |-> TRUE, pool |-> getNextKey(p, t).pool]
  ELSE [apiKey |-> IF client # 0 THEN client ELSE env, usingPool |-> FALSE, pool |-> p]

\* The handler up to its provider call: key selection, the three rejections,
\* then axios.post
ProxyStart(usePool, client, hasBody) ==
  LET k == SelectKey(pool, now, usePool, client, px.env)
      req == [IdleProxy EXCEPT !.op = "proxy", !.env = px.env, !.usePool = usePool,
                               !.client = client, !.apiKey = k.apiKey,
                               !.usingPool = k.usingPool, !.at = now]
  IN  /\ px.pc # "upstream"
      /\ pool' = k.pool
      /\ px' = IF k.apiKey = 0 THEN [req EXCEPT !.pc = "done", !.code = 401]
               ELSE IF k.apiKey = BadFormatKey \/ ~hasBody
               THEN [req EXCEPT !.pc = "done", !.code = 400]
               ELSE [req EXCEPT !.pc = "upstream", !.calls = 1]
      /\ UNCHANGED <<workflows, tasks, sel, orch, now, vcache, val, archive>>

UpstreamStatuses == {200, 400, 401, 429, 500}

\* The catch of the handler: apiKey and usingPool are declared with let
\* inside the try block, so `if (usingPool)` throws a ReferenceError; the
\* handler's promise rejects, no pool method is called and no response is sent
ProxyCatch(status) ==
  /\ pool' = pool
  /\ px' = [px EXCEPT !.pc = "crashed", !.upstream = status, !.at = now, !.code = 0]

\* The provider answered the call with status (500 stands for every other
\* failure of the call)
ProxyUpstream(status) ==
  /\ px.pc = "upstream"
  /\ IF status = 200
     THEN /\ px.usingPool => Counted(px.apiKey)
          /\ pool' = IF px.usingPool THEN markSuccess(pool, px.apiKey) ELSE pool
          /\ px' = [px EXCEPT !.pc = "done", !.upstream = 200, !.at = now, !.code = 200]
     ELSE ProxyCatch(status)
  /\ UNCHANGED <<workflows, tasks, sel, orch, now, vcache, val, archive>>

NextProxy ==
  \/ \E usePool \in BOOLEAN, client \in {0, ClientKey, BadFormatKey}, hasBody \in BOOLEAN :
        ProxyStart(usePool, client, hasBody)
  \/ \E status \in UpstreamStatuses : ProxyUpstream(status)
  \/ \E t \in Instants : Tick(t)
SpecProxy == InitProxy /\ [][NextProxy]_vars

----------------------------------------------------------------------------
(* Key validation: api_key_validations, validateOpenRouterKey and          *)
(* POST /api/validate-openrouter-key                                       *)

TtlSeconds == 3600       \* datetime('now', '+1 hour')

\* datetime('now'): the time in whole seconds
Seconds(t) == t \div 1000

\* The instants at which validations are requested and probes return, around
\* the expiry of a verdict stored in the first second or in the second one
ValInstants ==
  {0, 1000, TtlSeconds * 1000 - 1, TtlSeconds * 1000, TtlSeconds * 1000 + 1000}

\* A field the object does not have
Undefined == "undefined"
NoCount == 0 - 1

\* The row written by storeApiKeyValidation at time t
ValidationRow(key, isValid, modelCount, errorCode, t) ==
  [key |-> key, is_valid |-> isValid, model_count |-> modelCount, error_code |-> errorCode,
   validated_at |-> Seconds(t), expires_at |-> Seconds(t) + TtlSeconds]

\* storeApiKeyValidation: insertValidation.run binds isValid, a JavaScript
\* boolean. When the driver takes the binding the row is written; when it
\* refuses it, run throws, the catch logs the error and no row is written.
StoreValidation(rows, row, bound) == IF bound THEN rows \cup {row} ELSE rows

\* The rows the SELECT of getCachedApiKeyValidation would match if it did not
\* test expires_at
MatchingRowsAnyAge(rows, key, t) == {r \in rows : r.key = key}

\* WHERE key_hash = ? AND expires_at > datetime('now')
MatchingRows(rows, key, t) == {r \in rows : r.key = key /\ r.expires_at > Seconds(t)}

\* ORDER BY validated_at DESC LIMIT 1
LatestRow(rows) == CHOOSE r \in rows : \A q \in rows : q.validated_at <= r.validated_at

\* The object getCachedApiKeyValidation returns for a row: it has errorCode,
\* and neither error nor message
CachedResult(row) ==
  [valid |-> row.is_valid, modelCount |-> row.model_count, error |-> Undefined,
   errorCode |-> row.error_code, fromCache |-> TRUE]

\* The object validateOpenRouterKey returns after a probe or a format check
FreshResult(isValid, modelCount, error) ==
  [valid |-> isValid, modelCount |-> modelCount, error |-> error,
   errorCode |-> Undefined, fromCache |-> FALSE]

\* What the probe (GET /models) can come back with
ProbeOutcomes == {"ok_0", "ok_3", "401", "429", "403", "ENOTFOUND", "other"}

\* The errorCode the catch of validateOpenRouterKey derives
ErrorCodeOf(outcome) ==
  CASE outcome = "401" -> "INVALID_KEY"
    [] outcome = "429" -> "RATE_LIMITED"
    [] outcome = "403" -> "INSUFFICIENT_PERMISSIONS"
    [] outcome = "ENOTFOUND" -> "NETWORK_ERROR"
    [] OTHER -> "VALIDATION_FAILED"

\* testResponse.data?.data?.length || 0
ModelCountOf(outcome) == IF outcome = "ok_3" THEN 3 ELSE 0

\* The status POST /api/validate-openrouter-key chooses for a result
HttpStatus(result) ==
  IF result.valid THEN 200
  ELSE IF result.error = "NETWORK_ERROR" THEN 503
  ELSE IF result.error = "RATE_LIMITED" THEN 429
  ELSE 400

\* The endpoint answers with result; a fresh result is remembered as the
\* verdict last produced for the key
ValAnswer(key, result) ==
  val' = [val EXCEPT !.pc = "done", !.key = key, !.at = now, !.result = result,
                     !.status = HttpStatus(result),
                     !.probes = IF val.pc = "probing" THEN @ ELSE 0,
                     !.probed = IF result.fromCache THEN @
                                ELSE [key |-> key, result |-> result,
                                      status |-> HttpStatus(result)]]

\* POST /api/validate-openrouter-key up to the probe: no key, a cache hit, a
\* key of the wrong form, or the probe is sent
ValidateStart(key, bound) ==
  /\ val.pc # "probing"
  /\ IF key = 0
     THEN /\ val' = [val EXCEPT !.pc = "done", !.key = 0, !.at = now, !.probes = 0,
                                !.result = FreshResult(FALSE, NoCount, "NO_KEY_PROVIDED"),
                                !.status = 400]
          /\ UNCHANGED vcache
     ELSE IF MatchingRows(vcache, key, now) # {}
     THEN /\ ValAnswer(key, CachedResult(LatestRow(MatchingRows(vcache, key, now))))
          /\ UNCHANGED vcache
     ELSE IF key = BadFormatKey
     THEN /\ vcache' = StoreValidation(vcache,
                         ValidationRow(key, FALSE, 0, "INVALID_FORMAT", now), bound)
          /\ ValAnswer(key, FreshResult(FALSE, NoCount, "INVALID_FORMAT"))
     ELSE /\ val' = [val EXCEPT !.pc = "probing", !.key = key, !.at = now, !.probes = 1,
                                !.result = Null, !.status = 0]
          /\ UNCHANGED vcache
  /\ UNCHANGED <<workflows, tasks, sel, orch, pool, now, px, archive>>

\* The probe came back: the verdict is stored and returned
ProbeReturn(outcome, bound) ==
  /\ val.pc = "probing"
  /\ IF outcome \in {"ok_0", "ok_3"}
     THEN /\ vcache' = StoreValidation(vcache,
               ValidationRow(val.key, TRUE, ModelCountOf(outcome), Undefined, now), bound)
          /\ ValAnswer(val.key, FreshResult(TRUE, ModelCountOf(outcome), Undefined))
     ELSE /\ vcache' = StoreValidation(vcache,
               ValidationRow(val.key, FALSE, 0, ErrorCodeOf(outcome), now), bound)
          /\ ValAnswer(val.key, FreshResult(FALSE, NoCount, ErrorCodeOf(outcome)))
  /\ UNCHANGED <<workflows, tasks, sel, orch, pool, now, px, archive>>

NextVal ==
  \/ \E key \in {0, ClientKey, BadFormatKey}, bound \in BOOLEAN : ValidateStart(key, bound)
  \/ \E outcome \in ProbeOutcomes, bound \in BOOLEAN : ProbeReturn(outcome, bound)
  \/ \E t \in ValInstants : Tick(t)
SpecVal == Init /\ [][NextVal]_vars

----------------------------------------------------------------------------
(* POST /api/validate-keys *)

MaxBulk == 2             \* keys in one request of the model
BulkLimit == 10          \* apiKeys.length > 10

\* Model counts the provider reports for a valid key
ModelCounts == {0, 3, 57, 250}

BulkKeys == KeyIds \cup {BadFormatKey}
BulkRequests == {q \in UNION {[1..n -> BulkKeys] : n \in 0..MaxBulk} :
                   \A i, j \in DOMAIN q : i # j => q[i] # q[j]}

IdleBulk == [pc |-> "idle", keys |-> << >>, i |-> 0, results |-> << >>, status |-> 0]

\* What validateOpenRouterKey returns and leaves in the cache at time t, when
\* the probe (if one is sent) comes back with outcome and m models
validateOpenRouterKey(rows, key, t, outcome, m, bound) ==
  IF MatchingRows(rows, key, t) # {}
  THEN [result |-> CachedResult(LatestRow(MatchingRows(rows, key, t))), rows |-> rows]
  ELSE IF key = BadFormatKey
  THEN [result |-> FreshResult(FALSE, NoCount, "INVALID_FORMAT"),
        rows |-> StoreValidation(rows, ValidationRow(key, FALSE, 0, "INVALID_FORMAT", t), bound)]
  ELSE IF outcome = "ok"
  THEN [result |-> FreshResult(TRUE, m, Undefined),
        rows |-> StoreValidation(rows, ValidationRow(key, TRUE, m, Undefined, t), bound)]
  ELSE [result |-> FreshResult(FALSE, NoCount, ErrorCodeOf(outcome)),
        rows |-> StoreValidation(rows, ValidationRow(key, FALSE, 0, ErrorCodeOf(outcome), t),
                                 bound)]

Min(a, b) == IF a < b THEN a ELSE b
Max(a, b) == IF a > b THEN a ELSE b

\* Math.min(10, Math.max(1, Math.floor(modelCount / 10)))
PriorityOfCount(modelCount) == Min(10, Max(1, modelCount \div 10))

\* Math.min(10, Math.max(1, Math.floor((result.modelCount || 50) / 10)))
PriorityOf(modelCount) ==
  Min(10, Max(1, (IF modelCount = 0 \/ modelCount = NoCount THEN 50 ELSE modelCount) \div 10))

InitBulk ==
  /\ workflows = << >>
  /\ tasks = [t \in 1..MaxTasks |-> IdleTask]
  /\ sel = NoSel
  /\ NoOrchRun
  /\ pool \in EnvPools
  /\ px = IdleProxy
  /\ now = 0 /\ vcache = {} /\ val = IdleBulk
  /\ ArchiveAtRest

\* The request arrives: 400 for no keys or too many, else the loop starts
BulkStart(apiKeys) ==
  /\ val.pc # "validating"
  /\ IF Len(apiKeys) = 0 \/ Len(apiKeys) > BulkLimit
     THEN val' = [IdleBulk EXCEPT !.pc = "done", !.keys = apiKeys, !.status = 400]
     ELSE val' = [IdleBulk EXCEPT !.pc = "validating", !.keys = apiKeys, !.i = 1]
  /\ UNCHANGED <<workflows, tasks, sel, orch, pool, now, px, vcache, archive>>

\* One turn of the loop: the key is validated and, when valid, added to the
\* pool; after the last key the response is sent
BulkKey(outcome, m, bound) ==
  /\ val.pc = "validating"
  /\ LET apiKey == val.keys[val.i]
         v == validateOpenRouterKey(vcache, apiKey, now, outcome, m, bound)
     IN  /\ vcache' = v.rows
         /\ pool' = IF v.result.valid
                    THEN addKey(pool, apiKey, PriorityOf(v.result.modelCount))
                    ELSE pool
         /\ px' = IF v.result.valid THEN PoolCall("addKey", apiKey, 0) ELSE px
         /\ val' = [val EXCEPT !.results = Append(@, v.result),
                               !.i = @ + 1,
                               !.pc = IF val.i = Len(val.keys) THEN "done" ELSE @,
                               !.status = IF val.i = Len(val.keys) THEN 200 ELSE @]
  /\ UNCHANGED <<workflows, tasks, sel, orch, now, archive>>

NextBulk ==
  \/ \E apiKeys \in BulkRequests : BulkStart(apiKeys)
  \/ \E outcome \in {"ok", "401"}, m \in ModelCounts, bound \in BOOLEAN :
       BulkKey(outcome, m, bound)
SpecBulk == InitBulk /\ [][NextBulk]_vars

----------------------------------------------------------------------------
(* GET /api/search *)

MaxSpeeches == 3         \* rows of the speeches table
MaxLimit == 100          \* Math.min(..., 100)
DefaultLimit == 50       \* limit = 50, parseInt(limit) || 50

SpeechIds == 1..MaxSpeeches
Dates == {1, 2}          \* two days, as 'YYYY-MM-DD' strings compare

\* A row of speeches: kw tells whether title, transcript or rally_location
\* contains the keyword searched for
Speech(id, date, kw, status) == [id |-> id, date |-> date, kw |-> kw, status |-> status]

CandidateRows ==
  {Speech(id, date, kw, "active") : id \in SpeechIds, date \in Dates, kw \in BOOLEAN}
    \cup {Speech(MaxSpeeches, 1, TRUE, "inactive")}

\* The tables: id is the primary key
Stores == {S \in SUBSET CandidateRows :
             /\ \A r, q \in S : r.id = q.id => r = q
             /\ \A r \in S : r.id # 2 => r.kw
             /\ \A r \in S : r.id > 2 => r.date = 1}

\* A query-string value: absent, an integer, or text that is not a number
Absent == [kind |-> "absent", n |-> 0]
Text == [kind |-> "text", n |-> 0]
IntArg(n) == [kind |-> "int", n |-> n]

\* parseInt(v) || dflt, v defaulting to dflt when absent
ParseIntOr(v, dflt) == IF v.kind = "int" /\ v.n # 0 THEN v.n ELSE dflt

limitNumOf(limit) == Min(ParseIntOr(limit, DefaultLimit), MaxLimit)
offsetNumOf(offset) == Max(ParseIntOr(offset, 0), 0)

\* WHERE status = 'active' [AND ... LIKE ?] [AND date >= ?] [AND date <= ?]
Matches(r, f) ==
  /\ r.status = "active"
  /\ f.keyword => r.kw
  /\ f.startDate # 0 => r.date >= f.startDate
  /\ f.endDate # 0 => r.date <= f.endDate

Matching(S, f) == {r \in S : Matches(r, f)}

Filters == [keyword : BOOLEAN, startDate : {0, 2}, endDate : {0, 1}]

\* ORDER BY date DESC, id: the order the specification describes
OrderingsByDateThenId(S) ==
  {q \in [1..Cardinality(S) -> S] :
     /\ \A i, j \in DOMAIN q : i # j => q[i] # q[j]
     /\ \A i, j \in DOMAIN q :
          i < j => q[i].date > q[j].date \/ (q[i].date = q[j].date /\ q[i].id < q[j].id)}

\* ORDER BY date DESC: the engine may return rows of one date in any order
Orderings(S) ==
  {q \in [1..Cardinality(S) -> S] :
     /\ \A i, j \in DOMAIN q : i # j => q[i] # q[j]
     /\ \A i, j \in DOMAIN q : i < j => q[i].date >= q[j].date}

\* LIMIT ? OFFSET ?: a negative LIMIT is no limit
LimitOffset(q, limitNum, offsetNum) ==
  LET rest == SubSeq(q, offsetNum + 1, Len(q))
  IN  IF limitNum < 0 THEN rest ELSE SubSeq(rest, 1, Min(limitNum, Len(rest)))

InitSearch ==
  /\ workflows = << >>
  /\ tasks = [t \in 1..MaxTasks |-> IdleTask]
  /\ sel = NoSel
  /\ NoOrchRun
  /\ KeysAtRest
  /\ speeches \in Stores
  /\ srch = IdleSearch
  /\ feed = NoFeed
  /\ AuthAtRest

\* The response of one search, and the pages got so far when the caller pages
\* through the result from offset 0
Searched(f, limitNum, offsetNum, results, pages) ==
  [pc |-> "searched", filter |-> f, limitNum |-> limitNum, offsetNum |-> offsetNum,
   results |-> results, total |-> Cardinality(Matching(speeches, f)), pages |-> pages,
   run |-> srch.run]

\* GET /api/search?keyword&startDate&endDate&limit&offset
Search(f, limit, offset) ==
  /\ \E q \in Orderings(Matching(speeches, f)) :
       LET results == LimitOffset(q, limitNumOf(limit), offsetNumOf(offset))
       IN  srch' = Searched(f, limitNumOf(limit), offsetNumOf(offset), results,
                            IF offsetNumOf(offset) = 0 THEN <<results>> ELSE << >>)
  /\ UNCHANGED <<workflows, tasks, sel, orch, pool, now, px, vcache, val, speeches, feed, auth, runs>>

\* The caller asks for the next page: same filter and limit, offset moved on by limit
SearchNextPage ==
  /\ srch.pc = "searched" /\ srch.pages # << >> /\ srch.limitNum > 0
  /\ srch.offsetNum + srch.limitNum < srch.total
  /\ \E q \in Orderings(Matching(speeches, srch.filter)) :
       LET offsetNum == srch.offsetNum + srch.limitNum
           results == LimitOffset(q, srch.limitNum, offsetNum)
       IN  srch' = Searched(srch.filter, srch.limitNum, offsetNum, results,
                            Append(srch.pages, results))
  /\ UNCHANGED <<workflows, tasks, sel, orch, pool, now, px, vcache, val, speeches, feed, auth, runs>>

Limits == {Absent, Text, IntArg(0 - 1), IntArg(0), IntArg(1), IntArg(MaxLimit + 1)}
Offsets == {Absent, IntArg(0 - 1), IntArg(1), IntArg(2)}

NextSearch ==
  \/ \E f \in Filters, limit \in Limits, offset \in Offsets : Search(f, limit, offset)
  \/ SearchNextPage
SpecSearch == InitSearch /\ [][NextSearch]_vars

----------------------------------------------------------------------------
(* populateArchive and DataSourceManager *)

MaxRuns == 2             \* populateArchive calls
ArchiveFull == 10        \* existingCount > 10

\* The adapters of the model, in the order of this.sources
Sources == <<"cspan", "archive">>
SourceNames == {Sources[i] : i \in DOMAIN Sources}

\* What a source publishes about one speech: the last segment of its link or
\* its identifier (0: the link ends with a slash) and its date (0: none)
Ext(tail, date) == [tail |-> tail, date |-> date]

\* What a source may publish
Published ==
  {<< >>, <<Ext(1, 1)>>, <<Ext(0, 1)>>, <<Ext(1, 0)>>, <<Ext(2, 2)>>}
Worlds == [SourceNames -> Published]

\* Math.random().toString(36)
RandomTails == {11, 12}

\* The item an adapter makes of what it fetched: C-SPAN's scraper takes
\* link.split('/').pop() || Math.random().toString(36), the others the
\* identifier as it is; the date is passed on, null when missing
ItemOf(source, ext, rnd) ==
  [id |-> <<source, IF source = "cspan" /\ ext.tail = 0 THEN rnd ELSE ext.tail>>,
   date |-> ext.date, source |-> source]

\* source.fetch() of one adapter, with source: name added by fetchFromAllSources
FetchOf(world, source, rnd) ==
  [i \in DOMAIN world[source] |-> ItemOf(source, world[source][i], rnd)]

\* fetchFromAllSources: the adapters in fails throw
RECURSIVE FetchFrom(_, _, _, _)
FetchFrom(i, world, fails, rnd) ==
  IF i > Len(Sources) THEN [results |-> << >>, errors |-> << >>]
  ELSE LET rest == FetchFrom(i + 1, world, fails, rnd)
       IN  IF Sources[i] \in fails
           THEN [rest EXCEPT !.errors = <<Sources[i]>> \o @]
           ELSE [rest EXCEPT !.results = FetchOf(world, Sources[i], rnd) \o @]

\* INSERT INTO speeches with a key of its own: a row is added whatever the id
InsertNew(S, item) ==
  IF item.date = 0 THEN S
  ELSE S \cup {Speech(<<item.id[1], item.id[2] + 100 * (Cardinality(S) + 1)>>, item.date,
                      TRUE, "active")}

\* INSERT OR REPLACE INTO speeches: date is NOT NULL, so the insert of an item
\* without date throws and the item is skipped
InsertOrReplace(S, item) ==
  IF item.date = 0 THEN S
  ELSE {r \in S : r.id # item.id} \cup {Speech(item.id, item.date, TRUE, "active")}

\* saveToDatabase: the table afterwards and the number of successful inserts
RECURSIVE saveToDatabase(_, _)
saveToDatabase(S, items) ==
  IF items = << >> THEN [rows |-> S, inserted |-> 0]
  ELSE LET rest == saveToDatabase(InsertOrReplace(S, Head(items)), Tail(items))
       IN  [rest EXCEPT !.inserted = @ + (IF Head(items).date = 0 THEN 0 ELSE 1)]

\* What populateArchive returns
Skipped(existing) == [existing |-> existing, inserted |-> 0, has_errors |-> FALSE,
                      errors |-> << >>]
Populated(existing, inserted, errors) ==
  [existing |-> existing, inserted |-> inserted, has_errors |-> TRUE, errors |-> errors]

\* populateArchive over what the sources publish now
PopulateArchive(world, fails, rnd) ==
  LET existingCount == Cardinality(speeches)
      fetched == FetchFrom(1, world, fails, rnd)
      saved == saveToDatabase(speeches, fetched.results)
      skip == existingCount > ArchiveFull \/ fetched.results = << >>
  IN  /\ srch.run.n < MaxRuns
      /\ speeches' = IF skip THEN speeches ELSE saved.rows
      /\ srch' = [srch EXCEPT !.run =
                    [n |-> srch.run.n + 1, world |-> world, fails |-> fails,
                     fetched |-> fetched,
                     ret |-> IF skip THEN Skipped(existingCount)
                             ELSE Populated(existingCount, saved.inserted, fetched.errors)]]
      /\ UNCHANGED <<workflows, tasks, sel, orch, pool, now, px, vcache, val, feed, auth, runs>>

NextIngest ==
  \/ \E world \in Worlds, fails \in SUBSET SourceNames, rnd \in RandomTails :
       PopulateArchive(world, fails, rnd)
  \/ \E f \in {IdleSearch.filter}, limit \in {Absent}, offset \in {Absent, IntArg(1)} :
       Search(f, limit, offset)
SpecIngest == Init /\ [][NextIngest]_vars

----------------------------------------------------------------------------
(* generateRss and generateLocalRss *)

MaxText == 2             \* characters of a title or a description

\* The characters of the model: a letter and the XML metacharacters
Chars == {"a", "<", ">", "&", "\""}
Texts == UNION {[1..n -> Chars] : n \in 0..MaxText}

\* `<title>${title}</title> <description>${description}</description>`: the
\* item of the document, as its tags and the characters between them
ItemXml(title, description) ==
  <<"<title>">> \o title \o <<"</title>", "<description>">> \o description
    \o <<"</description>">>

\* What an XML parser makes of one character or entity of character data
\* ("" when the document is not well-formed there)
Decoded(x) ==
  CASE x = "&lt;" -> "<"
    [] x = "&gt;" -> ">"
    [] x = "&amp;" -> "&"
    [] x = "&quot;" -> "\""
    [] x \in {"<", "&"} -> ""
    [] OTHER -> x

First(doc, tag) == CHOOSE i \in DOMAIN doc : doc[i] = tag /\ \A j \in 1..(i - 1) : doc[j] # tag

\* The text of the element an XML parser reads from the document
ElementText(doc, open, close) ==
  LET content == SubSeq(doc, First(doc, open) + 1, First(doc, close) - 1)
  IN  [ok |-> \A i \in DOMAIN content : Decoded(content[i]) # "",
       text |-> [i \in DOMAIN content |-> Decoded(content[i])]]

Written(kind, title, description) ==
  [kind |-> kind, title |-> title, description |-> description,
   xml |-> ItemXml(title, description)]

\* generateRss(title, description, script, audioUrl)
GenerateRss(title, description) ==
  /\ feed' = Written("absolute", title, description)
  /\ UNCHANGED <<workflows, tasks, sel, orch, pool, now, px, vcache, val, speeches, srch, auth, runs>>

\* generateLocalRss(title, description, script, audioPath)
GenerateLocalRss(title, description) ==
  /\ feed' = Written("local", title, description)
  /\ UNCHANGED <<workflows, tasks, sel, orch, pool, now, px, vcache, val, speeches, srch, auth, runs>>

NextFeed ==
  \/ \E title \in Texts, description \in Texts : GenerateRss(title, description)
  \/ \E title \in Texts, description \in Texts : GenerateLocalRss(title, description)
SpecFeed == Init /\ [][NextFeed]_vars

----------------------------------------------------------------------------
(* AuthManager, POST /api/login, GET /api/profile and POST /api/logout *)

MaxTokens == 3           \* tokens issued
DayMs == 86400000        \* 24 * 60 * 60 * 1000, expiresIn: '24h'

Users == {1, 2}
AuthInstants == {0, 1000, DayMs + 1000}

\* jwt.sign({userId, ...}, secret, {expiresIn: '24h'}): the payload carries
\* the user and iat, the second of issue; two tokens signed for one user in
\* one second are the same string
Token(user, t) == [user |-> user, iat |-> Seconds(t)]

\* A string that is no token signed with the secret
Forged == [user |-> 0, iat |-> 0]

\* jwt.verify: the signature is right and exp = iat + 24 h is not reached
JwtValid(token, t) == token # Forged /\ Seconds(t) < token.iat + Seconds(DayMs)

\* The row login inserts; rows equal in user_id and expires_at are the same
\* to every statement of the module
Session(user, t) == [user_id |-> user, expires_at |-> t + DayMs]

\* s.expires_at > datetime('now'): expires_at is an ISO string
\* ('2026-01-02T10:00:00.000Z'), datetime('now') has a space where that has a
\* 'T', so the strings compare by their dates, and on the same date the ISO
\* string is the greater
SessionLive(session, t) == session.expires_at \div DayMs >= t \div DayMs

\* verifyToken(token).valid: the token verifies and its user has a live session
verifyToken(a, token, t) ==
  /\ JwtValid(token, t)
  /\ \E session \in a.sessions : session.user_id = token.user /\ SessionLive(session, t)

\* AuthManager.logout(token): the sessions table afterwards; token is Null
\* when the handler found none in the Authorization header
logout(a, token, t) ==
  IF token # Null /\ JwtValid(token, t)
  THEN [success |-> TRUE,
        sessions |-> {session \in a.sessions : session.user_id # token.user}]
  ELSE [success |-> FALSE, sessions |-> a.sessions]

\* Where a request carries its token
Vias == {"header", "query", "body"}

\* POST /api/login {username, password}
Login(user, passwordOk) ==
  /\ Cardinality(auth.issued \cup {Token(user, now)}) <= MaxTokens
  /\ IF passwordOk
     THEN auth' = [auth EXCEPT !.sessions = @ \cup {Session(user, now)},
                               !.issued = @ \cup {Token(user, now)},
                               !.last = [op |-> "login", token |-> Token(user, now),
                                         via |-> "body", passed |-> TRUE,
                                         success |-> TRUE, code |-> 200]]
     ELSE auth' = [auth EXCEPT !.last = [op |-> "login", token |-> Forged, via |-> "body",
                                         passed |-> FALSE, success |-> FALSE,
                                         code |-> 401]]
  /\ UNCHANGED <<workflows, tasks, sel, orch, pool, now, px, vcache, val, speeches, srch,
                 feed, runs>>

\* GET /api/profile behind requireAuth
Profile(token, via) ==
  LET passed == verifyToken(auth, token, now) IN
  /\ auth' = [auth EXCEPT !.used = IF passed THEN @ \cup {token} ELSE @,
                          !.last = [op |-> "profile", token |-> token, via |-> via,
                                    passed |-> passed, success |-> passed,
                                    code |-> IF passed THEN 200 ELSE 401]]
  /\ UNCHANGED <<workflows, tasks, sel, orch, pool, now, px, vcache, val, speeches, srch,
                 feed, runs>>

\* POST /api/logout behind requireAuth: the handler reads the token from the
\* Authorization header only
Logout(token, via) ==
  LET passed == verifyToken(auth, token, now)
      result == logout(auth, IF via = "header" THEN token ELSE Null, now)
  IN
  /\ IF passed
     THEN auth' = [auth EXCEPT !.sessions = result.sessions,
                               !.revoked = IF result.success THEN @ \cup {token} ELSE @,
                               !.last = [op |-> "logout", token |-> token, via |-> via,
                                         passed |-> TRUE, success |-> result.success,
                                         code |-> 200]]
     ELSE auth' = [auth EXCEPT !.last = [op |-> "logout", token |-> token, via |-> via,
                                         passed |-> FALSE, success |-> FALSE,
                                         code |-> 401]]
  /\ UNCHANGED <<workflows, tasks, sel, orch, pool, now, px, vcache, val, speeches, srch,
                 feed, runs>>

NextAuth ==
  \/ \E user \in Users, passwordOk \in BOOLEAN : Login(user, passwordOk)
  \/ \E token \in auth.issued \cup {Forged}, via \in Vias : Profile(token, via)
  \/ \E token \in auth.issued \cup {Forged}, via \in Vias : Logout(token, via)
  \/ \E t \in AuthInstants : Tick(t)
SpecAuth == Init /\ [][NextAuth]_vars

----------------------------------------------------------------------------
(* generateBatchScript's grouping loop, iteration by iteration *)

\* batchSize as the request body gives it: the handler takes it as it comes
BatchSizes == (0 - 2)..MaxBatch

\* The batches the heap holds: more than any run over MaxN speeches pushes
\* with a batchSize of 1 or more
MaxIterations == MaxN + 2

\* An index of Array.prototype.slice: a negative one counts from the end
RelativeIndex(n, k) == IF k < 0 THEN Max(n + k, 0) ELSE Min(k, n)

\* speeches.slice(from, to + 1)
SliceThrough(n, from, to) ==
  LET lo == RelativeIndex(n, from)
      hi == RelativeIndex(n, to + 1)
  IN  [j \in 1..(IF hi > lo THEN hi - lo ELSE 0) |-> lo + j]

\* speeches.slice(from, to) for any integers from and to
SliceAny(n, from, to) ==
  LET lo == RelativeIndex(n, from)
      hi == RelativeIndex(n, to)
  IN  [j \in 1..(IF hi > lo THEN hi - lo ELSE 0) |-> lo + j]

\* The strategy function at its first step: generateBatchScript starts its
\* grouping loop with i = 0 and no batch
BeginGrouping(n, batchSize) ==
  IF SelectStrategy(n, batchSize, FALSE) = "batch"
  THEN [NoOrch EXCEPT !.strategy = "batch", !.n = n, !.batchSize = batchSize,
                      !.pc = "grouping"]
  ELSE [NoOrch EXCEPT !.strategy = "single", !.n = n, !.batchSize = batchSize,
                      !.pc = "single", !.calls = <<Call("single", Slice(n, 0, n))>>]

InitBatch ==
  /\ \E n \in 1..MaxN, batchSize \in BatchSizes :
        /\ workflows = <<NewRow(Slice(n, 0, n))>>
        /\ orch = BeginGrouping(n, batchSize)
  /\ tasks = [t \in 1..MaxTasks |->
                IF t = 1 THEN Running("generateScript", 1, "strategy") ELSE IdleTask]
  /\ sel = NoSel
  /\ KeysAtRest
  /\ ArchiveAtRest

\* One evaluation of the loop's condition i < speeches.length: the body
\* pushes speeches.slice(i, i + batchSize) and adds batchSize to i; past the
\* loop the first summary call is issued. The loop is synchronous and nothing
\* bounds it but the heap: the process is aborted when the heap is exhausted.
GroupStep ==
  /\ orch.pc = "grouping"
  /\ orch' =
       IF orch.i < orch.n
       THEN IF Len(orch.batches) < MaxIterations
            THEN [orch EXCEPT
                    !.batches = Append(@, SliceAny(orch.n, orch.i, orch.i + orch.batchSize)),
                    !.i = @ + orch.batchSize]
            ELSE [orch EXCEPT !.pc = "out_of_memory"]
       ELSE IF orch.batches = << >>
            THEN [orch EXCEPT !.pc = "batch_synthesis",
                              !.calls = <<Call("synthesis", << >>)>>]
            ELSE [orch EXCEPT !.pc = "batch",
                              !.calls = <<Call("summary", orch.batches[1])>>]
  /\ UNCHANGED <<workflows, tasks, sel, pool, now, px, vcache, val, archive>>

NextBatch ==
  \/ GroupStep
  \/ \E ok \in BOOLEAN : OrchBatchSummary(ok)
  \/ \E ok \in BOOLEAN, out \in LLMOutputs : OrchBatchSynthesis(ok, out)
  \/ \E ok \in BOOLEAN, out \in LLMOutputs : OrchSingle(ok, out)
SpecBatch == InitBatch /\ [][NextBatch]_vars

\* The loop is synchronous code: it runs on while its condition holds. A
\* provider call is taken to return or to fail.
SpecBatchFair == SpecBatch /\ WF_vars(NextBatch)

----------------------------------------------------------------------------
(* populateArchive await by await: the run of app.listen and /api/refresh-archive *)

\* The table when the server starts: empty, at the threshold, above it
SeedStore(k) == {Speech(<<"seed", j>>, 1, FALSE, "active") : j \in 1..k}
SeedStores == {SeedStore(0), SeedStore(ArchiveFull), SeedStore(ArchiveFull + 1)}

\* What a source publishes while the runs are followed
RunPublished == {<< >>, <<Ext(1, 1)>>, <<Ext(0, 1)>>, <<Ext(1, 0)>>}

\* A call of a method of an adapter
AdapterCall(op, source) == [op |-> op, source |-> source]

\* A run not started. seen is the table as the run counted it and overlapped
\* tells that the run counted while another was between its count and its
\* return: neither is a value of the program.
IdleRun ==
  [pc |-> "idle", existing |-> 0, k |-> 0, calls |-> << >>, results |-> << >>,
   errors |-> << >>, ret |-> Null, seen |-> {}, overlapped |-> FALSE]

InitRuns ==
  /\ workflows = << >>
  /\ tasks = [t \in 1..MaxTasks |-> IdleTask]
  /\ sel = NoSel
  /\ NoOrchRun
  /\ KeysAtRest
  /\ speeches \in SeedStores
  /\ srch = IdleSearch /\ feed = NoFeed /\ auth = NoAuth
  /\ runs = [r \in 1..MaxRuns |-> IdleRun]

\* if (existingCount >= 10)
AtThreshold(existingCount) == existingCount >= ArchiveFull

\* if (existingCount > 10)
OverThreshold(existingCount) == existingCount > ArchiveFull

RunFrame == UNCHANGED <<workflows, tasks, sel, orch, pool, now, px, vcache, val, srch, feed, auth>>

\* populateArchive up to its first await: the count, the early return or
\* the first verify() of verifyAllSources
RunStart(r) ==
  LET existingCount == Cardinality(speeches) IN
  /\ runs[r].pc = "idle"
  /\ runs' = [runs EXCEPT ![r] =
       IF OverThreshold(existingCount)
       THEN [@ EXCEPT !.pc = "returned", !.existing = existingCount, !.seen = speeches,
                      !.ret = Skipped(existingCount)]
       ELSE [@ EXCEPT !.pc = "verify", !.existing = existingCount, !.seen = speeches,
                      !.k = 1, !.calls = <<AdapterCall("verify", Sources[1])>>,
                      !.overlapped = \E q \in DOMAIN runs : runs[q].pc \in {"verify", "fetch"}]]
  /\ UNCHANGED speeches
  /\ RunFrame

\* A verify() returned or threw: its result is kept in sourceStatus, which
\* is only logged; the next verify() or the first fetch() is called
RunVerified(r, ok) ==
  /\ runs[r].pc = "verify"
  /\ runs' = [runs EXCEPT ![r] =
       IF runs[r].k < Len(Sources)
       THEN [@ EXCEPT !.k = @ + 1,
                      !.calls = Append(@, AdapterCall("verify", Sources[runs[r].k + 1]))]
       ELSE [@ EXCEPT !.pc = "fetch", !.k = 1,
                      !.calls = Append(@, AdapterCall("fetch", Sources[1]))]]
  /\ UNCHANGED speeches
  /\ RunFrame

\* A fetch() returned what the source publishes or threw: the items or the
\* error are collected and the next fetch() is called; after the last one the
\* run returns early when there is no item, and saves the items otherwise
\* (saveToDatabase has no await of its own)
RunFetched(r, ok, published, rnd) ==
  LET source == Sources[runs[r].k]
      data == [i \in DOMAIN published |-> ItemOf(source, published[i], rnd)]
      results == IF ok THEN runs[r].results \o data ELSE runs[r].results
      errors == IF ok THEN runs[r].errors ELSE Append(runs[r].errors, source)
      saved == saveToDatabase(speeches, results)
  IN  /\ runs[r].pc = "fetch"
      /\ IF runs[r].k < Len(Sources)
         THEN /\ runs' = [runs EXCEPT ![r] =
                   [@ EXCEPT !.k = @ + 1, !.results = results, !.errors = errors,
                             !.calls = Append(@, AdapterCall("fetch", Sources[runs[r].k + 1]))]]
              /\ UNCHANGED speeches
         ELSE IF results = << >>
         THEN /\ runs' = [runs EXCEPT ![r] =
                   [@ EXCEPT !.pc = "returned", !.results = results, !.errors = errors,
                             !.ret = Skipped(runs[r].existing)]]
              /\ UNCHANGED speeches
         ELSE /\ runs' = [runs EXCEPT ![r] =
                   [@ EXCEPT !.pc = "returned", !.results = results, !.errors = errors,
                             !.ret = Populated(runs[r].existing, saved.inserted, errors)]]
              /\ speeches' = saved.rows
      /\ RunFrame

NextRuns ==
  \/ \E r \in 1..MaxRuns : RunStart(r)
  \/ \E r \in 1..MaxRuns, ok \in BOOLEAN : RunVerified(r, ok)
  \/ \E r \in 1..MaxRuns, ok \in BOOLEAN, published \in RunPublished, rnd \in RandomTails :
       RunFetched(r, ok, published, rnd)
  \/ Profile(Forged, "header")
SpecRuns == InitRuns /\ [][NextRuns]_vars

----------------------------------------------------------------------------
(* The key pool over an unbounded time *)

\* The keys offered to the pool: one more than two, from which on the
\* rotation can pass a key by
RotationKeys == 1..(MaxKeys + 1)

\* The server has been constructed at some instant after the epoch
InitRotation ==
  /\ workflows = << >>
  /\ tasks = [t \in 1..MaxTasks |-> IdleTask]
  /\ sel = NoSel
  /\ NoOrchRun
  /\ pool = EmptyPool /\ now = CooldownMs /\ px = IdleProxy /\ vcache = {} /\ val = IdleVal
  /\ ArchiveAtRest

\* getNextKey, with the key it returned
NextKey ==
  /\ pool' = getNextKey(pool, now).pool
  /\ px' = PoolCall("getNextKey", 0, getNextKey(pool, now).key)
  /\ UNCHANGED <<workflows, tasks, sel, orch, now, vcache, val, archive>>

\* markRateLimited(key): errorCount is counted up to MaxCount
RateLimit(key, durationMs) ==
  /\ HasKey(pool, key)
  /\ pool' = [markRateLimited(pool, key, durationMs, now) EXCEPT
                !.keys[IndexOf(pool, key)].errorCount = Min(@, MaxCount)]
  /\ px' = [PoolCall("markRateLimited", key, 0) EXCEPT !.durationMs = durationMs]
  /\ UNCHANGED <<workflows, tasks, sel, orch, now, vcache, val, archive>>

\* d ms pass. The pool compares its instants with Date.now() and does nothing
\* else with them, so the passing of time is written as every instant the pool
\* holds moved d ms back (not below 1, which is past like every instant before
\* now) with the reading of the clock kept: the instants stay within a finite
\* set however long the server runs.
Elapse(d) ==
  /\ \E i \in DOMAIN pool.keys : pool.keys[i].rateLimitedUntil # 0
  /\ pool' = [pool EXCEPT !.keys =
       [i \in DOMAIN pool.keys |->
          IF pool.keys[i].rateLimitedUntil = 0 THEN pool.keys[i]
          ELSE [pool.keys[i] EXCEPT !.rateLimitedUntil = Max(@ - d, 1)]]]
  /\ UNCHANGED <<workflows, tasks, sel, orch, now, px, vcache, val, archive>>

NextRotation ==
  \/ \E key \in RotationKeys, priority \in Priorities : AddKey(key, priority)
  \/ NextKey
  \/ \E key \in RotationKeys, durationMs \in Durations : RateLimit(key, durationMs)
  \/ Elapse(CooldownMs)
SpecRotation == InitRotation /\ [][NextRotation]_vars

\* Requests keep coming: getNextKey is called again and again
SpecRotationFair == SpecRotation /\ WF_vars(NextKey)

----------------------------------------------------------------------------
(* Stage invariants and the order of the stages *)

Rows == {workflows[w] : w \in DOMAIN workflows}

\* C1: every stored workflow with status audio_generated or finalized has a
\* script, and every finalized workflow has an audio_url, whatever requests
\* were made and however their handlers interleaved.
C1_StageInvariant ==
  \A r \in Rows :
    /\ r.status \in {"audio_generated", "finalized"} => r.script # Null
    /\ r.status = "finalized" => r.audio_url # Null

C1_Finalized ==
  \E r \in Rows : r.status = "finalized" /\ r.script # Null /\ r.audio_url # Null

Rank(status) ==
  CASE status = "draft" -> 0
    [] status \in {"script_generated", "script_uploaded"} -> 1
    [] status = "audio_generated" -> 2
    [] status = "finalized" -> 3

\* C2: the status of a workflow never moves back in the order draft <
\* {script_generated, script_uploaded} < audio_generated < finalized, so a
\* finalized workflow stays finalized.
C2_StatusMonotone ==
  [][\A w \in DOMAIN workflows :
       Rank(workflows'[w].status) >= Rank(workflows[w].status)]_vars

\* The request taken up in slot t by this step was let through: it is either
\* left waiting at an await or answered with 200.
LetThrough(t) == tasks'[t].pc # "done" \/ tasks'[t].code = 200

\* C3: a generate-audio request is let through only for an existing workflow
\* with a script, and a finalize request only for one with a script and an
\* audio_url; a request that is not let through is answered with an error
\* status, and its step starts no TTS worker, writes no file and leaves every
\* workflow as it was.
C3_RejectedStageRequest ==
  [][\A t \in 1..MaxTasks :
       Taken(t, "generateAudio") \/ Taken(t, "finalize") =>
         LET w == tasks'[t].wf IN
         IF LetThrough(t)
         THEN /\ Exists(w)
              /\ workflows[w].script # Null
              /\ tasks'[t].op = "finalize" => workflows[w].audio_url # Null
         ELSE /\ tasks'[t].code = 400
              /\ tasks'[t].proc = "none"
              /\ tasks'[t].wrote = {}
              /\ workflows' = workflows
              /\ \A u \in 1..MaxTasks \ {t} : tasks'[u] = tasks[u]]_vars

\* finalize was refused for a workflow that has a script and no audio yet
C3_FinalizeRefused ==
  \E t \in 1..MaxTasks :
    /\ tasks[t].pc = "done" /\ tasks[t].op = "finalize" /\ tasks[t].code = 400
    /\ Exists(tasks[t].wf)
    /\ workflows[tasks[t].wf].script # Null
    /\ workflows[tasks[t].wf].audio_url = Null

----------------------------------------------------------------------------
(* Interleaved and abandoned requests *)

\* C4: transitions on one workflow are serial: when generate-audio commits,
\* the script it read before its await is still the workflow's script, and
\* when finalize commits, the audio_url it read is still the workflow's.
C4_NoStaleCommit ==
  [][\A t \in 1..MaxTasks :
       /\ tasks[t].pc = "tts" /\ tasks'[t].pc = "done" =>
            tasks[t].script = workflows[tasks[t].wf].script
       /\ tasks[t].op = "finalize" /\ tasks[t].pc # "done" /\ tasks'[t].pc = "done"
            /\ tasks'[t].code = 200 =>
            tasks[t].audio = workflows[tasks[t].wf].audio_url]_vars

\* C5: a generate-script request that failed, or that its client abandoned
\* while a provider call was outstanding, writes nothing to any workflow.
C5_AbandonedWritesNothing ==
  [][\A t \in 1..MaxTasks :
       /\ tasks[t].pc \in ScriptPcs /\ tasks'[t].pc = "done"
       /\ (tasks[t].abandoned \/ tasks'[t].code # 200)
       => workflows' = workflows]_vars

----------------------------------------------------------------------------
(* The TTS worker *)

FailedWorker == {"spawn_failed", "exit_nonzero", "exit_unparsable", "signalled"}

\* C6: when the wait for the TTS worker ends with the worker failed (it did
\* not start, exited non-zero, printed unparsable output or was killed at
\* the timeout), the workflow gets audio_url audio/<id>.wav and status
\* audio_generated, and the response is a success whose ttsResult has
\* success false and fallback true.
C6_FallbackOnWorkerFailure ==
  [][\A t \in 1..MaxTasks :
       tasks[t].pc = "tts" /\ tasks'[t].pc # "tts" /\ tasks'[t].proc \in FailedWorker =>
         LET w == tasks[t].wf IN
         /\ workflows'[w].audio_url = FallbackPath(w)
         /\ workflows'[w].status = "audio_generated"
         /\ tasks'[t].pc = "done"
         /\ tasks'[t].code = 200
         /\ tasks'[t].detail.audioUrl = FallbackPath(w)
         /\ tasks'[t].detail.ttsResult.success = FALSE
         /\ tasks'[t].detail.ttsResult.fallback = TRUE]_vars

\* generate-audio was answered after the timeout killed the worker
C6_TimedOut ==
  \E t \in 1..MaxTasks :
    /\ tasks[t].pc = "done" /\ tasks[t].op = "generateAudio" /\ tasks[t].code = 200
    /\ tasks[t].proc = "signalled"
    /\ tasks[t].detail.ttsResult.fallback
    /\ workflows[tasks[t].wf].audio_url = FallbackPath(tasks[t].wf)

\* C7: whenever generateLocalTTS has delivered its result (generate-audio is
\* answered), the worker it started is no longer running.
C7_WorkerGoneOnDelivery ==
  \A t \in 1..MaxTasks :
    tasks[t].pc = "done" /\ tasks[t].op = "generateAudio" =>
      tasks[t].proc \notin {"running", "signalled"}

----------------------------------------------------------------------------
(* The synchronous endpoints *)

IsString(s) == s.kind = "str"

\* C8 as the specification states it: upload-script accepts every non-empty
\* script of at most 50,000 characters sent for an existing workflow.
C8_AcceptsEveryNonEmpty ==
  [][\A t \in 1..MaxTasks :
       /\ Taken(t, "uploadScript")
       /\ IsString(tasks'[t].arg)
       /\ StrLen(tasks'[t].arg) > 0
       /\ StrLen(tasks'[t].arg) <= MaxScriptLen
       /\ Exists(tasks'[t].wf)
       => tasks'[t].code = 200]_vars

\* What upload-script lets through: a string with a character that is not
\* white space and at most 50,000 characters, white space included
UploadWellFormed(s) ==
  IF IsString(s) THEN s.body > 0 /\ StrLen(s) <= MaxScriptLen ELSE FALSE

\* C8: upload-script accepts every string of at most 50,000 characters that
\* has a character other than white space: it stores the string trimmed,
\* sets status script_uploaded and answers 200. It answers 400 to a script of
\* 50,001 characters or more, to an empty or white-space-only script and to
\* a missing or non-string one, 400 to a missing workflowId and 404 to an
\* unknown one; whatever it does not accept leaves every workflow unchanged.
C8_UploadBoundary ==
  [][\A t \in 1..MaxTasks : Taken(t, "uploadScript") =>
       LET s == tasks'[t].arg
           w == tasks'[t].wf
       IN  IF UploadWellFormed(s) /\ Exists(w)
           THEN /\ tasks'[t].code = 200
                /\ workflows'[w].script = Trim(s)
                /\ workflows'[w].status = "script_uploaded"
                /\ \A v \in DOMAIN workflows \ {w} : workflows'[v] = workflows[v]
                /\ DOMAIN workflows' = DOMAIN workflows
           ELSE /\ tasks'[t].code = IF UploadWellFormed(s) /\ w # NoId THEN 404 ELSE 400
                /\ workflows' = workflows]_vars

\* A script of exactly 50,000 characters was accepted and stored
C8_AcceptedAtLimit ==
  \E t \in 1..MaxTasks :
    /\ tasks[t].pc = "done" /\ tasks[t].op = "uploadScript" /\ tasks[t].code = 200
    /\ StrLen(tasks[t].arg) = MaxScriptLen
    /\ workflows[tasks[t].wf].script = Trim(tasks[t].arg)

BadSpeechIds(ids) ==
  IF ids.kind = "array" THEN Len(ids.items) = 0 ELSE TRUE

C10_StrategySelection ==
  sel.chosen # "none" =>
    LET swarm == sel.useSwarm /\ sel.n >= 3
        batch == ~swarm /\ sel.n > sel.batchSize
    IN  /\ sel.chosen = "swarm" <=> swarm
        /\ sel.chosen = "batch" <=> batch
        /\ sel.chosen = "single" <=> ~swarm /\ ~batch

\* The swarm was asked for with fewer than 3 speeches and batching was chosen
C10_SwarmTooSmall ==
  sel.chosen = "batch" /\ sel.useSwarm /\ sel.n < 3

----------------------------------------------------------------------------
(* The strategies under provider failures *)

CallsOfKind(kind) == {c \in DOMAIN orch.calls : orch.calls[c].kind = kind}

\* C11: in the batched strategy a failed summary call never ends the run:
\* its entry carries the marker with the titles of its batch, every batch
\* gets its summary call and its entry, exactly one synthesis call is issued,
\* over all the entries, and when it succeeds the workflow is script_generated.
C11_BatchFailuresAbsorbed ==
  orch.strategy = "batch" =>
    /\ Len(orch.entries) <= Len(orch.batches)
    /\ \A i \in DOMAIN orch.entries :
         /\ orch.entries[i].batch = orch.batches[i]
         /\ orch.calls[i] = Call("summary", orch.batches[i])
         /\ orch.entries[i].summary =
              IF orch.entries[i].ok THEN Summary(orch.batches[i]) ELSE Marker(orch.batches[i])
    /\ orch.pc = "batch" =>
         /\ Len(orch.entries) < Len(orch.batches)
         /\ CallsOfKind("synthesis") = {}
         /\ tasks[1].pc # "done"
    /\ orch.pc # "batch" =>
         /\ orch.pc \in {"batch_synthesis", "returned", "threw"}
         /\ Len(orch.entries) = Len(orch.batches)
         /\ CallsOfKind("synthesis") = {Len(orch.calls)}
         /\ orch.calls[Len(orch.calls)].over = orch.entries
    /\ orch.pc = "returned" =>
         /\ workflows[1].status = "script_generated"
         /\ workflows[1].script = orch.result.text
         /\ tasks[1].code = 200

\* A batched run of three batches or more returned a script after some of
\* its summaries failed and some did not
C11_ReturnedWithMarkers ==
  /\ orch.strategy = "batch" /\ orch.pc = "returned"
  /\ Len(orch.batches) >= 3
  /\ \E i, j \in DOMAIN orch.entries : ~orch.entries[i].ok /\ orch.entries[j].ok
  /\ workflows[1].status = "script_generated"

\* C12: in the swarm strategy, once an agent call has failed no synthesis
\* call is issued, generateSingleScript is called once over all the
\* speeches, the script returned is that call's output, and when it succeeds
\* the workflow is script_generated.
C12_SwarmFallsBackToSingle ==
  orch.strategy = "swarm" /\ (\E a \in DOMAIN orch.agents : orch.agents[a] = "failed") =>
    /\ CallsOfKind("synthesis") = {}
    /\ orch.pc \in {"fallback", "returned", "threw"}
    /\ CallsOfKind("single") = {Len(orch.calls)}
    /\ orch.calls[Len(orch.calls)].over = Slice(orch.n, 0, orch.n)
    /\ orch.pc = "fallback" => tasks[1].pc # "done"
    /\ orch.pc = "returned" =>
         /\ orch.result.from = "single"
         /\ workflows[1].status = "script_generated"
         /\ workflows[1].script = orch.result.text
         /\ tasks[1].code = 200

\* The swarm returned the single call's script after one agent had failed and
\* another had delivered its analysis
C12_FellBack ==
  /\ orch.strategy = "swarm" /\ orch.pc = "returned"
  /\ \E a, b \in DOMAIN orch.agents : orch.agents[a] = "failed" /\ orch.agents[b] = "ok"
  /\ orch.result.from = "single"
  /\ workflows[1].status = "script_generated"

----------------------------------------------------------------------------
(* The key pool *)

\* This step is a call of op on the pool
PoolStep(op) == px'.op = op /\ px'.at = now /\ (px' # px \/ pool' # pool)

PoolKeys(p) == {p.keys[i].key : i \in DOMAIN p.keys}

\* C14: getNextKey never returns a key whose rateLimitedUntil is later than
\* the time of the call.
C14_NeverRateLimitedKey ==
  [][PoolStep("getNextKey") /\ px'.got # 0 =>
       /\ HasKey(pool, px'.got)
       /\ InfoOf(pool, px'.got).rateLimitedUntil <= now]_vars

\* getNextKey returned a key while the other key was cooling down
C14_PassedOverLimited ==
  /\ px.op = "getNextKey" /\ px.got # 0 /\ px.at = now
  /\ \E k \in PoolKeys(pool) \ {px.got} : InfoOf(pool, k).rateLimitedUntil > now

\* C15: markRateLimited(k, d) at time t sets the cooldown of k to t + d; a
\* getNextKey before t + d does not return k and leaves its cooldown; a
\* getNextKey at t + d or later clears the cooldown and returns k when no
\* other key is available.
C15_CooldownWindow ==
  [][/\ PoolStep("markRateLimited") /\ HasKey(pool, px'.apiKey) =>
          InfoOf(pool', px'.apiKey).rateLimitedUntil = now + px'.durationMs
     /\ PoolStep("getNextKey") =>
          \A k \in PoolKeys(pool) :
            LET until == InfoOf(pool, k).rateLimitedUntil IN
            /\ until # 0 /\ now < until =>
                 px'.got # k /\ InfoOf(pool', k).rateLimitedUntil = until
            /\ until # 0 /\ now >= until =>
                 /\ InfoOf(pool', k).rateLimitedUntil = 0
                 /\ px'.got # 0
                 /\ (\A j \in PoolKeys(pool) \ {k} :
                       InfoOf(pool, j).rateLimitedUntil > now) => px'.got = k]_vars

\* getNextKey returned a key whose cooldown that call found expired
C15_ReturnedAfterCooldown ==
  /\ px.op = "getNextKey" /\ px.got # 0
  /\ px.got \in px.cleared
  /\ px.at >= CooldownMs

Count(q, x) == Cardinality({i \in DOMAIN q : q[i] = x})

\* C16: with two keys of different priority both available, a complete
\* rotation of getNextKey calls returns the key of higher priority more often
\* than the other.
C16_HigherPriorityMoreOften ==
  /\ px.op = "getNextKey"
  /\ Len(pool.keys) = 2
  /\ \A i \in DOMAIN pool.keys : pool.keys[i].rateLimitedUntil = 0
  /\ pool.keys[1].priority > pool.keys[2].priority
  /\ pool.currentIndex = 0
  /\ Len(px.served) = 2
  => Count(px.served, pool.keys[1].key) > Count(px.served, pool.keys[2].key)

\* C18: markError removes the key for INVALID_KEY and leaves the rest of the
\* pool alone; for any other kind it changes nothing but the error counter
\* of the key, which grows by one.
C18_MarkErrorFrame ==
  [][PoolStep("markError") /\ HasKey(pool, px'.apiKey) =>
       LET k == px'.apiKey IN
       IF px'.kind = "INVALID_KEY"
       THEN /\ PoolKeys(pool') = PoolKeys(pool) \ {k}
            /\ \A j \in PoolKeys(pool') : InfoOf(pool', j) = InfoOf(pool, j)
       ELSE pool' = [pool EXCEPT !.keys[IndexOf(pool, k)].errorCount = @ + 1]]_vars

----------------------------------------------------------------------------
(* Keys of provider calls *)

\* C13: a provider call uses the client's key when one is supplied, else a
\* pool key when usePool is set and the pool has an available key, else the
\* environment key.
C13_KeyPrecedence ==
  [][px'.op = "proxy" /\ px' # px /\ px.pc # "upstream" =>
       LET k == SelectKeyClientFirst(pool, now, px'.usePool, px'.client, px'.env)
       IN  px'.apiKey = k.apiKey /\ px'.usingPool = k.usingPool]_vars

\* C17: a proxy call made with a pool key that the provider answers with 429
\* ends with a 429 response, one provider call and the key cooling down for
\* 60 s; answered with 401 it ends with a 401 response and the key removed.
C17_PoolKeyFailure ==
  [][/\ px.op = "proxy" /\ px.pc = "upstream" /\ px.usingPool
     /\ px'.pc # "upstream" /\ px'.upstream \in {401, 429}
     => /\ px'.pc = "done"
        /\ px'.code = px'.upstream
        /\ px'.calls = 1
        /\ px'.upstream = 429 =>
             /\ HasKey(pool', px.apiKey)
             /\ InfoOf(pool', px.apiKey).rateLimitedUntil = now + CooldownMs
        /\ px'.upstream = 401 => ~HasKey(pool', px.apiKey)]_vars

----------------------------------------------------------------------------
(* The validation cache *)

\* C19: a validation is answered from the cache only by a row whose
\* expires_at is later than now, that is one stored less than an hour ago;
\* when the key has no such row, a key of the right form is probed afresh.
C19_HitOnlyBeforeExpiry ==
  [][val'.pc # val.pc \/ val'.at # val.at \/ val'.result # val.result =>
       /\ val'.pc = "done" /\ val'.result.fromCache =>
            \E r \in vcache :
              /\ r.key = val'.key
              /\ r.expires_at > Seconds(now)
              /\ Seconds(now) < r.validated_at + TtlSeconds
              /\ val'.result.valid = r.is_valid
       /\ val.pc # "probing" /\ val'.key = ClientKey
          /\ (\A r \in vcache : r.key = ClientKey => Seconds(now) >= r.validated_at + TtlSeconds)
          => val'.pc = "probing" /\ val'.probes = 1]_vars

\* A key is being probed again after its stored verdict expired
C19_ProbedAfterExpiry ==
  /\ val.pc = "probing"
  /\ \E r \in vcache : r.key = val.key /\ r.expires_at <= Seconds(val.at)

\* The error code a result carries, under either field name
CodeOf(result) == IF result.fromCache THEN result.errorCode ELSE result.error

C21_NoProbeWithinTheHour ==
  [][/\ val.pc = "done" /\ val.key # 0 /\ val.result.fromCache = FALSE
     /\ val'.key = val.key
     /\ Seconds(now) < Seconds(val.at) + TtlSeconds
     => val'.pc # "probing"]_vars

\* C22: the endpoint answers 401 for an invalid key, 429 for a rate-limited
\* one and 503 for a network error, for probed and for cached verdicts.
C22_StatusOfVerdict ==
  val.pc = "done" /\ val.result # Null =>
    /\ CodeOf(val.result) = "INVALID_KEY" => val.status = 401
    /\ CodeOf(val.result) = "RATE_LIMITED" => val.status = 429
    /\ CodeOf(val.result) = "NETWORK_ERROR" => val.status = 503

----------------------------------------------------------------------------
(* Bulk validation *)

\* C23: a key validated as valid with model count m that was not in the pool
\* is in the pool afterwards with priority clamp(1, 10, floor(m / 10)); a key
\* validated as invalid is not added.
C23_PriorityFromModelCount ==
  [][val.pc = "validating" /\ Len(val'.results) = Len(val.results) + 1 =>
       LET apiKey == val.keys[val.i]
           result == val'.results[Len(val'.results)]
       IN  IF result.valid
           THEN ~HasKey(pool, apiKey) =>
                  /\ HasKey(pool', apiKey)
                  /\ InfoOf(pool', apiKey).priority = PriorityOfCount(result.modelCount)
           ELSE HasKey(pool', apiKey) => HasKey(pool, apiKey)]_vars

----------------------------------------------------------------------------
(* Search *)

RECURSIVE Concat(_)
Concat(pages) == IF pages = << >> THEN << >> ELSE Head(pages) \o Concat(Tail(pages))

\* C24: once the caller has paged through a result from offset 0 to the end,
\* the pages together hold every matching speech exactly once.
C24_PagesPartitionTheResult ==
  /\ srch.pc = "searched" /\ srch.pages # << >> /\ srch.limitNum > 0
  /\ srch.offsetNum + srch.limitNum >= srch.total
  => LET all == Concat(srch.pages)
     IN  /\ Len(all) = srch.total
         /\ \A r \in Matching(speeches, srch.filter) : Count(all, r) = 1

\* C25: the results are the rows at (limit, offset) of the matching active
\* speeches ordered by date descending and then id ascending, and total is
\* the number of matching active speeches.
C25_OrderedByDateThenId ==
  srch.pc = "searched" =>
    /\ srch.total = Cardinality(Matching(speeches, srch.filter))
    /\ \E q \in OrderingsByDateThenId(Matching(speeches, srch.filter)) :
         srch.results = LimitOffset(q, srch.limitNum, srch.offsetNum)

\* C26: the limit in effect is between 1 and 100, the offset in effect is not
\* negative, and at most 100 rows are returned.
C26_LimitAndOffsetClamped ==
  srch.pc = "searched" =>
    /\ srch.limitNum \in 1..MaxLimit
    /\ srch.offsetNum >= 0
    /\ Len(srch.results) <= MaxLimit

----------------------------------------------------------------------------
(* Ingestion *)

Ids(S) == {r.id : r \in S}
ItemsOf(q) == {q[i] : i \in DOMAIN q}

\* C27: a run of populateArchive over the same publications as the run before
\* it, with no adapter failing in either, leaves the set of speech ids as it was.
C27_SecondRunAddsNothing ==
  [][/\ srch.run # NoRun /\ srch'.run # srch.run
     /\ srch'.run.world = srch.run.world
     /\ srch.run.fails = {} /\ srch'.run.fails = {}
     => Ids(speeches') = Ids(speeches)]_vars

\* C28: after a run in which some adapters threw, every dated item of every
\* other adapter is in the table and the returned errors list has one entry
\* for each adapter that threw.
C28_FailuresIsolated ==
  srch.run # NoRun =>
    /\ \A item \in ItemsOf(srch.run.fetched.results) :
         item.date # 0 => item.id \in Ids(speeches)
    /\ \A source \in srch.run.fails :
         srch.run.ret.has_errors /\ Count(srch.run.ret.errors, source) = 1

\* C29: after a run, an item fetched without date is in the table, and every
\* unfiltered search lists it after the dated speeches.
C29_UndatedIngestedLast ==
  srch.run # NoRun =>
    \A item \in ItemsOf(srch.run.fetched.results) :
      item.date = 0 =>
        /\ item.id \in Ids(speeches)
        /\ \A q \in Orderings(Matching(speeches, IdleSearch.filter)) :
             \A i, j \in DOMAIN q : q[i].id = item.id /\ q[j].date # 0 => j < i

----------------------------------------------------------------------------
(* Feeds *)

\* C30: the title and the description read back from a written feed, local
\* or absolute, are the title and the description it was written from.
C30_FeedTextRoundTrip ==
  feed # NoFeed =>
    /\ ElementText(feed.xml, "<title>", "</title>") = [ok |-> TRUE, text |-> feed.title]
    /\ ElementText(feed.xml, "<description>", "</description>")
         = [ok |-> TRUE, text |-> feed.description]

----------------------------------------------------------------------------
(* Speech references at script generation *)

\* C31: while a generate-script request is calling the provider, and once it
\* has stored a script, every entry of the workflow's speech_ids is the id of
\* an existing speech.
C31_EverySpeechIdResolves ==
  \A t \in 1..MaxTasks :
    tasks[t].op = "generateScript" /\ tasks[t].pc \notin {"idle", "done"} =>
      Range(workflows[tasks[t].wf].speech_ids) \subseteq SpeechStore

----------------------------------------------------------------------------
(* Sessions *)

\* C32: a logout that passed requireAuth, with a token that a login returned
\* and that has given access to a protected endpoint, reports success and
\* leaves no session of the user, however the token was supplied.
C32_LogoutSucceeds ==
  auth.last.op = "logout" /\ auth.last.passed /\ auth.last.token \in auth.used =>
    /\ auth.last.success
    /\ \A session \in auth.sessions : session.user_id # auth.last.token.user

\* C39: a token whose logout has succeeded is not accepted by requireAuth
\* afterwards, and a successful logout leaves every other token as
\* verifyToken found it before.
C39_LogoutRevokesOnlyItsToken ==
  [][/\ auth'.last # auth.last /\ auth'.last.op \in {"profile", "logout"}
        /\ auth'.last.passed
        => auth'.last.token \notin auth.revoked
     /\ auth'.last # auth.last /\ auth'.last.op = "logout" /\ auth'.last.success
        => \A token \in auth.issued \ {auth'.last.token} :
             verifyToken(auth, token, now) => verifyToken(auth', token, now)]_vars

----------------------------------------------------------------------------
(* Provider calls of one generate-script request *)

CeilDiv(n, d) == (n + d - 1) \div d

OrchOver == orch.pc \in {"returned", "threw"}

\* C33: a generate-script request that used the Single strategy has made
\* exactly one provider call, over all the speeches; one that used the
\* Batched strategy over n speeches has made ceil(n / batchSize) summary calls,
\* one per batch, the batches being the speeches in input order with every
\* speech in exactly one of them, and then one synthesis call, issued once
\* every summary call had completed, whichever of them failed.
C33_ProviderCallCount ==
  LET all == Slice(orch.n, 0, orch.n) IN
  /\ orch.strategy = "single" /\ orch.pc # "none" =>
        /\ orch.calls = <<Call("single", all)>>
        /\ orch.pc \in {"single", "returned", "threw"}
  /\ orch.strategy = "batch" /\ orch.pc \notin {"grouping", "out_of_memory"} =>
        /\ Concat(orch.batches) = all
        /\ \A b \in DOMAIN orch.batches : orch.batches[b] # << >>
        /\ Len(orch.batches) = CeilDiv(orch.n, orch.batchSize)
        /\ Len(orch.calls) <= Len(orch.batches) + 1
        /\ \A c \in DOMAIN orch.calls :
              IF c <= Len(orch.batches)
              THEN orch.calls[c] = Call("summary", orch.batches[c])
              ELSE /\ orch.calls[c].kind = "synthesis"
                   /\ Len(orch.entries) = Len(orch.batches)
        /\ Len(orch.entries) < Len(orch.batches) => Len(orch.calls) = Len(orch.entries) + 1
        /\ OrchOver => Len(orch.calls) = CeilDiv(orch.n, orch.batchSize) + 1

\* Three summary calls, of which one failed, and the synthesis call
C33_ThreeSummariesAndASynthesis ==
  /\ orch.strategy = "batch" /\ orch.pc = "returned"
  /\ Len(orch.batches) = 3 /\ Len(orch.calls) = 4
  /\ Len(orch.batches[3]) < orch.batchSize
  /\ \E e \in DOMAIN orch.entries : ~orch.entries[e].ok

\* C38: generate-script terminates whatever batchSize the request gives: the
\* grouping loop of generateBatchScript comes to its end and the summary calls
\* begin.
C38_GroupingLoopEnds == (orch.pc = "grouping") ~> (orch.pc = "batch")

\* C34: in the swarm strategy no provider call is issued after the three
\* agent calls, neither the synthesis call nor the call of the single-script
\* fallback, while one of the three agent calls is still in flight.
C34_SwarmJoinIsTotal ==
  [][orch.strategy = "swarm" /\ Len(orch'.calls) > Len(orch.calls) =>
       \A a \in DOMAIN orch'.agents : orch'.agents[a] # "pending"]_vars

\* The speeches the three agent calls of the swarm were issued over
AgentSlices == [a \in 1..3 |-> orch.calls[a].over]

\* C35: the slices of the three agents of a swarm over n >= 3 speeches are
\* [floor(i * n / 3), floor((i + 1) * n / 3)) for i = 0, 1, 2: none is empty,
\* one after the other they are the speeches in input order, every speech in
\* exactly one of them, and no two sizes differ by more than one.
C35_AgentSlicesPartition ==
  orch.strategy = "swarm" =>
    /\ orch.n >= 3
    /\ \A a \in 1..3 :
          /\ orch.calls[a].kind = "agent"
          /\ AgentSlices[a] # << >>
          /\ AgentSlices[a] =
                [j \in 1..(((a * orch.n) \div 3) - (((a - 1) * orch.n) \div 3)) |->
                   (((a - 1) * orch.n) \div 3) + j]
    /\ Concat(AgentSlices) = Slice(orch.n, 0, orch.n)
    /\ \A a, b \in 1..3 : Len(AgentSlices[a]) - Len(AgentSlices[b]) <= 1

\* The three agents of a swarm over five speeches have returned their
\* analyses of one, two and two speeches
C35_FiveSpeechesInThree ==
  /\ orch.strategy = "swarm" /\ orch.n = 5 /\ orch.pc = "swarm_synthesis"
  /\ Len(AgentSlices[1]) = 1 /\ Len(AgentSlices[2]) = 2 /\ Len(AgentSlices[3]) = 2

----------------------------------------------------------------------------
(* The runs of populateArchive *)

\* verify() of every adapter, in the order of this.sources, then fetch() of every adapter
EveryAdapterCalled ==
  [i \in 1..(2 * Len(Sources)) |->
     IF i <= Len(Sources) THEN AdapterCall("verify", Sources[i])
     ELSE AdapterCall("fetch", Sources[i - Len(Sources)])]

Dated(items) == {i \in DOMAIN items : items[i].date # 0}

\* C36: a run of populateArchive that counted more than 10 speeches calls no
\* adapter, leaves the table as it is and returns {existing, inserted: 0}; a
\* run that counted 10 or fewer has, when it returns, called verify() and then
\* fetch() of every adapter and passed every item fetched to the upsert: each
\* item the table accepts has its row, and inserted counts them.
C36_ThresholdSkipsTheRun ==
  [][\A r \in DOMAIN runs :
       runs'[r] # runs[r] =>
         /\ runs'[r].existing > ArchiveFull =>
               /\ runs'[r].pc = "returned"
               /\ runs'[r].calls = << >>
               /\ runs'[r].ret.existing = runs'[r].existing /\ runs'[r].ret.inserted = 0
               /\ speeches' = speeches
         /\ runs'[r].existing <= ArchiveFull /\ runs'[r].pc = "returned" =>
               /\ runs'[r].calls = EveryAdapterCalled
               /\ runs'[r].ret.existing = runs'[r].existing
               /\ runs'[r].ret.inserted = Cardinality(Dated(runs'[r].results))
               /\ \A i \in Dated(runs'[r].results) :
                     \E row \in speeches' : /\ row.id = runs'[r].results[i].id
                                             /\ row.date = runs'[r].results[i].date
               /\ runs'[r].results = << >> => speeches' = speeches]_vars

\* A run that counted 10 speeches has inserted one and the next run, counting
\* 11, has returned without a call
C36_EleventhSpeechStopsTheNextRun ==
  \E r, q \in DOMAIN runs :
    /\ runs[r].pc = "returned" /\ runs[r].existing = ArchiveFull /\ runs[r].ret.inserted = 1
    /\ runs[q].pc = "returned" /\ runs[q].existing = ArchiveFull + 1
    /\ runs[q].calls = << >> /\ runs[q].ret.inserted = 0
    /\ Cardinality(speeches) = ArchiveFull + 1

\* C40: when the runs of populateArchive counted the same table, none of them
\* over the threshold, and fetched the same items, the table after the last of
\* them holds the rows a single run over these items leaves, one row per id;
\* and while a run is waiting for an adapter the server answers other requests.
C40_OverlappingRunsAsOne ==
  /\ (\A r \in DOMAIN runs : /\ runs[r].pc = "returned"
                               /\ runs[r].existing <= ArchiveFull
                               /\ runs[r].seen = runs[1].seen
                               /\ runs[r].results = runs[1].results) =>
        /\ speeches = IF runs[1].results = << >> THEN runs[1].seen
                      ELSE saveToDatabase(runs[1].seen, runs[1].results).rows
        /\ \A a, b \in speeches : a.id = b.id => a = b
  /\ (\E r \in DOMAIN runs : runs[r].pc \in {"verify", "fetch"}) =>
        ENABLED Profile(Forged, "header")

\* The runs overlapped, both counted before either wrote, both saved the same
\* two items, and a request was answered
C40_BothRunsSavedTheSameItems ==
  /\ \A r \in DOMAIN runs : /\ runs[r].pc = "returned"
                              /\ runs[r].seen = SeedStore(0)
                              /\ runs[r].results = runs[1].results
                              /\ runs[r].ret.inserted = 2
  /\ \E r \in DOMAIN runs : runs[r].overlapped
  /\ Cardinality(speeches) = 2
  /\ auth.last.op = "profile"

----------------------------------------------------------------------------
(* The rotation of the key pool *)

\* C37: a key that stays in the pool and is never rate-limited is returned
\* by getNextKey again and again as long as getNextKey is called, whatever
\* other keys are rate-limited and whenever their cooldowns pass.
C37_NoStarvation ==
  \A key \in RotationKeys :
    <>[](HasKey(pool, key) /\ InfoOf(pool, key).rateLimitedUntil = 0)
      => []<>(px.op = "getNextKey" /\ px.got = key)

====
